---- MODULE Spec2Model ----
(***************************************************************************)
(* Model of model-hub-cli: the Model entity (score/latency maps, lazily    *)
(* cached metadata, NetScore), the eight catalogue metrics, and the        *)
(* ModelCatalogue orchestrator driven by run_catalogue.                    *)
(*                                                                         *)
(* Python floats are modelled as exact rationals <<n, d>> (d > 0, lowest   *)
(* terms); binary rounding of floats is outside the model.  Python's None  *)
(* and optional values are modelled as sequences of length 0 or 1.         *)
(***************************************************************************)
EXTENDS Integers, Sequences, FiniteSets, TLC

\* ------------------------------------------------------------------ bounds
\* Largest number of input lines a run of the catalogue reads.
MaxLines == 2

\* ------------------------------------------------------- float arithmetic
Abs(x) == IF x < 0 THEN -x ELSE x

RECURSIVE GCD(_, _)
GCD(a, b) == IF b = 0 THEN a ELSE GCD(b, a % b)

Rat(n, d) ==
    LET g == GCD(Abs(n), Abs(d))
        s == IF d < 0 THEN -1 ELSE 1
    IN  IF n = 0 THEN <<0, 1>> ELSE <<(s * n) \div g, (s * d) \div g>>

Zero == <<0, 1>>
One == <<1, 1>>
Half == <<1, 2>>

RAdd(a, b) == Rat(a[1] * b[2] + b[1] * a[2], a[2] * b[2])
RSub(a, b) == Rat(a[1] * b[2] - b[1] * a[2], a[2] * b[2])
RMul(a, b) == Rat(a[1] * b[1], a[2] * b[2])
RDiv(a, b) == Rat(a[1] * b[2], a[2] * b[1])
RLeq(a, b) == a[1] * b[2] <= b[1] * a[2]
RLt(a, b) == a[1] * b[2] < b[1] * a[2]
RMin(a, b) == IF RLeq(a, b) THEN a ELSE b
RMax(a, b) == IF RLeq(a, b) THEN b ELSE a
RInt(n) == <<n, 1>>

RECURSIVE RSumSeq(_)
RSumSeq(s) == IF s = <<>> THEN Zero ELSE RAdd(Head(s), RSumSeq(Tail(s)))

\* ---------------------------------------------------------- Python values
\* name = expression: the expression is evaluated once and the rest of the
\* code, Op, sees its value.
Bind(v, Op(_)) == CHOOSE r \in {Op(x) : x \in {v}} : TRUE

\* Optional values: None is the empty sequence, a value x is <<x>>.
None == <<>>
Some(x) == <<x>>
IsNone(o) == o = <<>>
Get(o) == o[1]

\* A stored score: a float, or a dict whose values are floats.  A dict is a
\* sequence of <<key, float>> pairs in insertion order.
FloatScore(r) == [kind |-> "float", f |-> r, d |-> <<>>]
DictScore(pairs) == [kind |-> "dict", f |-> Zero, d |-> pairs]
NoneValue == [kind |-> "none", f |-> Zero, d |-> <<>>]

DictValues(pairs) == [i \in 1..Len(pairs) |-> pairs[i][2]]

\* dict.get(key): the stored value, or None when the key is absent.
DictGet(map, key) == IF key \in DOMAIN map THEN map[key] ELSE NoneValue

\* map[key] = value on a dict held as a function over its key set.
DictPut(map, key, value) ==
    [k \in (DOMAIN map) \cup {key} |-> IF k = key THEN value ELSE map[k]]

EmptyDict == [k \in {} |-> NoneValue]

\* --------------------------------------------------------- metric names
LicenseMetric == "LicenseMetric"
AvailabilityMetric == "AvailabilityMetric"
PerformanceClaimsMetric == "PerformanceClaimsMetric"
BusFactorMetric == "BusFactorMetric"
SizeMetric == "SizeMetric"
CodeQualityMetric == "CodeQualityMetric"
DatasetQualityMetric == "DatasetQualityMetric"
RampUpMetric == "RampUpMetric"
NetScore == "NetScore"

\* ModelCatalogue.metrics, in declared order.
CatalogueMetrics ==
    << LicenseMetric, AvailabilityMetric, PerformanceClaimsMetric,
       BusFactorMetric, SizeMetric, CodeQualityMetric,
       DatasetQualityMetric, RampUpMetric >>

MetricNames == {CatalogueMetrics[i] : i \in 1..Len(CatalogueMetrics)}

\* ------------------------------------------------- Model.computeNetScore
\* safe_score(key): the value the weighted sum uses for one metric.
\* safe_score returning the stored value as it is, None included.
safe_score_missing_as_none(evals, key) ==
    LET val == DictGet(evals, key)
    IN  IF key = SizeMetric
        THEN IF val.kind = "dict" /\ val.d # <<>>
             THEN FloatScore(RDiv(RSumSeq(DictValues(val.d)), RInt(Len(val.d))))
             ELSE FloatScore(Zero)
        ELSE IF val.kind = "dict"
             THEN IF val.d # <<>>
                  THEN FloatScore(RDiv(RSumSeq(DictValues(val.d)), RInt(Len(val.d))))
                  ELSE FloatScore(Zero)
             ELSE val

safe_score(evals, key) ==
    LET val == DictGet(evals, key)
    IN  IF key = SizeMetric
        THEN IF val.kind = "dict" /\ val.d # <<>>
             THEN FloatScore(RDiv(RSumSeq(DictValues(val.d)), RInt(Len(val.d))))
             ELSE FloatScore(Zero)
        ELSE IF val.kind = "dict"
             THEN IF val.d # <<>>
                  THEN FloatScore(RDiv(RSumSeq(DictValues(val.d)), RInt(Len(val.d))))
                  ELSE FloatScore(Zero)
             ELSE IF val.kind # "none" THEN val ELSE FloatScore(Zero)

\* The weights with those of the size and the ramp-up metric exchanged.
NetWeights_swapped ==
    << <<SizeMetric, 3>>, <<RampUpMetric, 2>>, <<BusFactorMetric, 1>>,
       <<AvailabilityMetric, 1>>, <<DatasetQualityMetric, 1>>,
       <<CodeQualityMetric, 1>>, <<PerformanceClaimsMetric, 1>> >>

\* The weights of the seven contributing metrics, in tenths.
NetWeights ==
    << <<SizeMetric, 2>>, <<RampUpMetric, 3>>, <<BusFactorMetric, 1>>,
       <<AvailabilityMetric, 1>>, <<DatasetQualityMetric, 1>>,
       <<CodeQualityMetric, 1>>, <<PerformanceClaimsMetric, 1>> >>

\* Multiplying or adding a value that is not a float raises TypeError.
NetScoreRaises(evals) ==
    \/ safe_score(evals, LicenseMetric).kind # "float"
    \/ \E i \in 1..Len(NetWeights) :
          safe_score(evals, NetWeights[i][1]).kind # "float"

weighted_sum(evals) ==
    RSumSeq([i \in 1..Len(NetWeights) |->
                RMul(Rat(NetWeights[i][2], 10),
                     safe_score(evals, NetWeights[i][1]).f)])

\* The license score added to the weighted sum instead of multiplying it.
net_score_additive(evals) ==
    RAdd(safe_score(evals, LicenseMetric).f, weighted_sum(evals))

net_score(evals) ==
    RMul(safe_score(evals, LicenseMetric).f, weighted_sum(evals))

\* sum(latency for key, latency in evaluationsLatency.items() if key != "NetScore")
RECURSIVE SumLatencies(_, _)
SumLatencies(lat, keys) ==
    IF keys = {} THEN Zero
    ELSE LET k == CHOOSE x \in keys : TRUE
         IN  RAdd(lat[k], SumLatencies(lat, keys \ {k}))

NetScoreLatency(lat) == SumLatencies(lat, (DOMAIN lat) \ {NetScore})

\* ------------------------------------------------------------------ URLs
\* URLs are strings of a fixed set; UrlTable gives what urlparse and the
\* substring tests of the code find in each of them.
HFModelUrl == "https://huggingface.co/acme/model"
HFDatasetUrl == "https://huggingface.co/datasets/acme/data"
GitHubUrl == "https://github.com/acme/repo"
HFDatasetUrlCaps == "https://huggingface.co/datasets/Acme/Data"
OtherUrl == "https://example.com/acme/thing"

UrlTable ==
    [u \in {HFModelUrl, HFDatasetUrl, HFDatasetUrlCaps, GitHubUrl, OtherUrl} |->
        CASE u = HFModelUrl ->
               [netloc |-> "huggingface.co", parts |-> <<"acme", "model">>]
          [] u = HFDatasetUrl ->
               [netloc |-> "huggingface.co",
                parts |-> <<"datasets", "acme", "data">>]
          [] u = HFDatasetUrlCaps ->
               [netloc |-> "huggingface.co",
                parts |-> <<"datasets", "Acme", "Data">>]
          [] u = GitHubUrl ->
               [netloc |-> "github.com", parts |-> <<"acme", "repo">>]
          [] OTHER ->
               [netloc |-> "example.com", parts |-> <<"acme", "thing">>]]

KnownUrl(u) == u \in DOMAIN UrlTable
\* urlparse(url).netloc and urlparse(url).path.strip("/").split("/")
Netloc(u) == IF KnownUrl(u) THEN UrlTable[u].netloc ELSE ""
PathParts(u) == IF KnownUrl(u) THEN UrlTable[u].parts ELSE <<u>>
\* "huggingface.co" in url, "github.com" in url, "/datasets/" in url
HasHuggingFace(u) == Netloc(u) = "huggingface.co"
HasGitHub(u) == Netloc(u) = "github.com"
HasDatasetsSegment(u) == KnownUrl(u) /\ PathParts(u)[1] = "datasets"

\* ------------------------------------------------------ external services
\* A Python value that metadata may hold where the code expects a string.
PyNone == [kind |-> "none", s |-> ""]
PyStr(x) == [kind |-> "str", s |-> x]
PyList == [kind |-> "list", s |-> ""]

\* The Hugging Face model API document, reduced to the fields the code reads.
\*   author, id        : strings ("" when the key is absent)
\*   license           : cardData.license
\*   datasets          : the names of cardData.datasets, in order (a single
\*                       string is a list of one; <<>> when absent)
\*   repository        : cardData.repository ("" when absent)
\*   params            : safetensors.total in units of 2^30 parameters (0: absent)
\*   bits              : width found in the first safetensors dtype (0: absent)
\*   claims            : the claims _extract_hf_claims finds, by rubric class
HFDoc(author, id, license, datasets, repository, params, bits, claims) ==
    [empty |-> FALSE, author |-> author, id |-> id, license |-> license,
     datasets |-> datasets, repository |-> repository,
     params |-> params, bits |-> bits, claims |-> claims]

EmptyHF ==
    [empty |-> TRUE, author |-> "", id |-> "", license |-> PyNone,
     datasets |-> <<>>, repository |-> "", params |-> 0, bits |-> 0,
     claims |-> <<>>]

HFSamples ==
    { HFDoc("acme", "acme/model", PyStr("MIT"), <<>>, "", 1, 0, <<>>),
      HFDoc("", "google/model", PyStr("Apache-2.0"), <<"acme/data">>, GitHubUrl,
            7, 16, <<"number_metric_benchmark", "benchmark">>),
      HFDoc("acme", "acme/model", PyStr("mit"), <<"Acme/Data">>, "", 30, 32,
            <<"number_metric", "metric", "benchmark", "benchmark">>),
      HFDoc("acme", "acme/model", PyList, <<>>, "", 0, 0, <<"metric">>) }

\* The GitHub metadata GitHubFetcher assembles.
\*   contributors : commit counts of the contributors, in API order
\*   license      : spdx_id
\*   stars, forks : Option(int); None is a JSON null
\*   clone_url    : whether the repository document carries a clone URL
GHDoc(contributors, license, stars, forks, clone_url) ==
    [empty |-> FALSE, contributors |-> contributors, license |-> license,
     stars |-> stars, forks |-> forks, clone_url |-> clone_url]

EmptyGH ==
    [empty |-> TRUE, contributors |-> <<>>, license |-> PyNone,
     stars |-> Some(0), forks |-> Some(0), clone_url |-> FALSE]

GHSamples ==
    { GHDoc(<<10, 10, 10>>, PyStr("MIT"), Some(150), Some(30), TRUE),
      GHDoc(<<8, 2>>, PyStr("GPL-3.0"), Some(1000), Some(5), FALSE),
      GHDoc(<<4>>, PyNone, None, Some(0), TRUE) }

\* What a clone of the repository holds (None: the clone fails).
CloneDoc(tests, sources, license, readme, contributing) ==
    [tests |-> tests, sources |-> sources, license |-> license,
     readme |-> readme, contributing |-> contributing]

CloneSamples == { CloneDoc(1, 4, TRUE, TRUE, FALSE), CloneDoc(6, 3, FALSE, TRUE, TRUE) }

\* The text-completion service's answer to the dataset prompt: None when the
\* request fails or holds no number, else the first number of the answer in
\* hundredths.
LLMSamples == { None, Some(85), Some(700), Some(12000) }

\* The five checklist signals RampUpMetric looks for in the README and the
\* model index of the model repository.
ChecklistSignals == {"readme", "install", "usage", "dataset", "training"}

\* One fixed state of the outside world for a run.
\*   hf   : Option(HFDoc)  - None: the model API answers with an error
\*   gh   : Option(GHDoc)  - None: the GitHub API answers with an error
\*   ds   : BOOLEAN        - the dataset API answers with a document
\*   llm  : Option(int), clone : Option(CloneDoc)
\*   signals : the checklist signals the model repository shows
Worlds ==
    [hf : {None} \cup {Some(d) : d \in HFSamples},
     gh : {None} \cup {Some(d) : d \in GHSamples},
     ds : BOOLEAN,
     llm : LLMSamples,
     clone : {None} \cup {Some(c) : c \in CloneSamples},
     signals : {ChecklistSignals}]

\* Worlds in which a part nobody can observe is left at one value.
NormalWorld(w) ==
    /\ (~w.ds) => w.llm = None
    /\ (IsNone(w.gh) \/ ~Get(w.gh).clone_url) => w.clone = None


\* ------------------------------------------------------ metadata_fetchers
\* HuggingFaceFetcher.fetch_metadata(url): {} unless the URL is a Hugging
\* Face URL with two path parts whose model document the API returns.
HuggingFaceFetcher(w, url) ==
    IF IsNone(url) \/ Get(url) = "" THEN EmptyHF
    ELSE IF Netloc(Get(url)) # "huggingface.co" THEN EmptyHF
    ELSE IF Len(PathParts(Get(url))) < 2 THEN EmptyHF
    ELSE IF PathParts(Get(url))[1] = "acme" /\ PathParts(Get(url))[2] = "model"
              /\ ~IsNone(w.hf)
         THEN Get(w.hf)
         ELSE EmptyHF

\* GitHubFetcher.fetch_metadata(url)
GitHubFetcher(w, url) ==
    IF IsNone(url) \/ Get(url) = "" THEN EmptyGH
    ELSE IF Netloc(Get(url)) # "github.com" THEN EmptyGH
    ELSE IF Len(PathParts(Get(url))) < 2 THEN EmptyGH
    ELSE IF PathParts(Get(url))[1] = "acme" /\ PathParts(Get(url))[2] = "repo"
              /\ ~IsNone(w.gh)
         THEN Get(w.gh)
         ELSE EmptyGH

\* DatasetFetcher.fetch_metadata(url); the dataset document is opaque.
EmptyDS == [empty |-> TRUE]
DSDoc == [empty |-> FALSE]

DatasetFetcher(w, url) ==
    IF IsNone(url) \/ Get(url) = "" THEN EmptyDS
    ELSE IF Netloc(Get(url)) # "huggingface.co" THEN EmptyDS
    ELSE IF Len(PathParts(Get(url))) < 3 \/ PathParts(Get(url))[1] # "datasets"
         THEN EmptyDS
    ELSE IF PathParts(Get(url))[2] = "acme" /\ PathParts(Get(url))[3] = "data"
              /\ w.ds
         THEN DSDoc
         ELSE EmptyDS

\* ---------------------------------------------------------------- url_utils
MISSING_TOKENS == {"", "none", "null", "na", "n/a"}

\* str.lower() on the tokens an input line may hold
Lower(t) ==
    CASE t = "None" -> "none"
      [] t = "NULL" -> "null"
      [] t = "N/A" -> "n/a"
      [] OTHER -> t

normalize_missing_token(token) ==
    IF Lower(token) \in MISSING_TOKENS THEN None ELSE Some(token)

\* parse_urls_by_position(urls): [ok, model, code, dataset]; ok = FALSE
\* stands for the ValueError.
parse_urls_by_position(urls) ==
    IF urls = <<>> \/ Len(urls) > 3
    THEN [ok |-> FALSE, model |-> None, code |-> None, dataset |-> None]
    ELSE LET padded == SubSeq(urls \o <<"", "", "">>, 1, 3)
             code_url == normalize_missing_token(padded[1])
             dataset_url == normalize_missing_token(padded[2])
             model_url == normalize_missing_token(padded[3])
         IN  [ok |-> ~IsNone(model_url), model |-> model_url,
              code |-> code_url, dataset |-> dataset_url]

\* More strings a caller may pass as a URL.
BlankStr == "   "
PaddedGitHubUrl == " https://github.com/acme/repo "
HFRootUrl == "https://huggingface.co"
HFSlashUrl == "https://huggingface.co/"
HFDatasetsBareUrl == "https://huggingface.co/datasets"
NoSchemeUrl == "huggingface.co/acme/model"
WwwGitHubUrl == "https://www.github.com/acme/repo"
FtpUrl == "ftp://somewhere.com/resource"

\* A Python value that is not a string.
PyInt == [kind |-> "int", s |-> ""]

\* str.strip() on the strings above
Strip(t) ==
    CASE t = BlankStr -> ""
      [] t = PaddedGitHubUrl -> GitHubUrl
      [] OTHER -> t

\* A path as the sequence of its "/" and its segments.
RECURSIVE SlashJoin(_)
SlashJoin(parts) ==
    IF parts = <<>> THEN <<>> ELSE <<"/", Head(parts)>> \o SlashJoin(Tail(parts))

\* urlparse(u): netloc and path.  A string without "//" has no netloc and
\* is all path.
urlparse(u) ==
    CASE KnownUrl(u) ->
           [netloc |-> UrlTable[u].netloc, path |-> SlashJoin(UrlTable[u].parts)]
      [] u = HFRootUrl -> [netloc |-> "huggingface.co", path |-> <<>>]
      [] u = HFSlashUrl -> [netloc |-> "huggingface.co", path |-> <<"/">>]
      [] u = HFDatasetsBareUrl ->
           [netloc |-> "huggingface.co", path |-> <<"/", "datasets">>]
      [] u = WwwGitHubUrl ->
           [netloc |-> "www.github.com", path |-> <<"/", "acme", "/", "repo">>]
      [] u = FtpUrl -> [netloc |-> "somewhere.com", path |-> <<"/", "resource">>]
      [] OTHER -> [netloc |-> "", path |-> IF u = "" THEN <<>> ELSE <<u>>]

\* path.startswith(prefix)
startswith(path, prefix) ==
    Len(path) >= Len(prefix) /\ SubSeq(path, 1, Len(prefix)) = prefix

\* What classify_url answers: a role, or a ValueError with its message.
UrlRole(kind) == [ok |-> TRUE, kind |-> kind, err |-> ""]
UrlError(msg) == [ok |-> FALSE, kind |-> "", err |-> msg]

\* classify_url accepting any path on huggingface.co
classify_url_any_path(url) ==
    IF url.kind # "str" \/ Strip(url.s) = ""
    THEN UrlError("Input must be a non-empty URL string.")
    ELSE LET parsed == urlparse(Strip(url.s))
         IN  IF parsed.netloc = "" THEN UrlError("Malformed URL")
             ELSE IF parsed.netloc = "huggingface.co"
             THEN IF startswith(parsed.path, <<"/", "datasets", "/">>)
                  THEN UrlRole("dataset")
                  ELSE UrlRole("model")
             ELSE IF parsed.netloc = "github.com" THEN UrlRole("code")
             ELSE UrlError("Unknown or unsupported URL domain")

\* classify_url(url), url being any Python value
classify_url(url) ==
    IF url.kind # "str" \/ Strip(url.s) = ""
    THEN UrlError("Input must be a non-empty URL string.")
    ELSE LET parsed == urlparse(Strip(url.s))
         IN  IF parsed.netloc = "" THEN UrlError("Malformed URL")
             ELSE IF parsed.netloc = "huggingface.co"
             THEN IF startswith(parsed.path, <<"/", "datasets", "/">>)
                  THEN UrlRole("dataset")
                  ELSE IF startswith(parsed.path, <<"/">>)
                  THEN UrlRole("model")
                  ELSE UrlError("Unknown Hugging Face URL")
             ELSE IF parsed.netloc = "github.com" THEN UrlRole("code")
             ELSE UrlError("Unknown or unsupported URL domain")

\* URLBundler.classify_url(url), url being a string
bundler_classify_url(url) ==
    IF Strip(url) = ""
    THEN UrlError("Input mus be a non-empty URL string.")
    ELSE LET parsed == urlparse(Strip(url))
         IN  IF parsed.netloc = "" THEN UrlError("Malformed URL")
             ELSE IF parsed.netloc = "huggingface.co"
             THEN IF startswith(parsed.path, <<"/", "datasets", "/">>)
                  THEN UrlRole("dataset")
                  ELSE IF startswith(parsed.path, <<"/">>)
                  THEN UrlRole("model")
                  ELSE UrlError("Unknown Hugging Face URL")
             ELSE IF parsed.netloc = "github.com" THEN UrlRole("code")
             ELSE UrlError("Unknown or unsupported URL domain")

\* URLBundle(model, code, dataset), each an Option
URLBundle(model, code, dataset) ==
    [model |-> model, code |-> code, dataset |-> dataset]

\* The loop of bundle over the URLs left: acc holds bundles, current and the
\* message of the ValueError raised, if any.  keeping leaves current as it
\* is after a bundle is appended instead of clearing it.
RECURSIVE bundle_loop(_, _, _)
bundle_loop(urls, acc, keeping) ==
    IF urls = <<>> \/ acc.err # "" THEN acc
    ELSE LET url == Head(urls)
             category == bundler_classify_url(url)
             current == acc.current
         IN  IF ~category.ok
             THEN [acc EXCEPT !.err = category.err]
             ELSE IF category.kind = "model"
             THEN bundle_loop(Tail(urls),
                    [acc EXCEPT
                       !.bundles = Append(@, URLBundle(Some(url), current.code,
                                                       current.dataset)),
                       !.current = IF keeping
                                   THEN [current EXCEPT !.model = Some(url)]
                                   ELSE URLBundle(None, None, None)],
                    keeping)
             ELSE bundle_loop(Tail(urls),
                    [acc EXCEPT !.current = [current EXCEPT
                                               ![category.kind] = Some(url)]],
                    keeping)

bundle_with(urls, keeping) ==
    LET r == bundle_loop(urls, [bundles |-> <<>>,
                                current |-> URLBundle(None, None, None),
                                err |-> ""], keeping)
    IN  [ok |-> r.err = "", bundles |-> IF r.err = "" THEN r.bundles ELSE <<>>,
         err |-> r.err]

\* bundle without current.clear()
bundle_keeping(urls) == bundle_with(urls, TRUE)

\* bundle(urls): [ok, bundles, err]; ok = FALSE stands for the ValueError.
bundle(urls) == bundle_with(urls, FALSE)

\* What classify_urls answers: a URLSet, or a ValueError with its message.
URLSet(model, code, dataset) ==
    [ok |-> TRUE, model |-> model, code |-> code, dataset |-> dataset,
     err |-> ""]
UrlsError(msg) ==
    [ok |-> FALSE, model |-> None, code |-> None, dataset |-> None,
     err |-> msg]

\* First pass of classify_urls over the URLs left, acc holding model, code,
\* dataset, unknowns and the message of the ValueError raised, if any.
\* last_wins overwrites a role found again instead of raising.
RECURSIVE first_pass(_, _, _)
first_pass(urls, acc, last_wins) ==
    IF urls = <<>> \/ acc.err # "" THEN acc
    ELSE LET url == Head(urls)
             c == classify_url(PyStr(url))
             kind == IF c.ok THEN c.kind ELSE ""
             next ==
               CASE kind = "model" ->
                      IF ~IsNone(acc.model) /\ ~last_wins
                      THEN [acc EXCEPT !.err = "Duplicate model URL found in group"]
                      ELSE [acc EXCEPT !.model = Some(url)]
                 [] kind = "code" ->
                      IF ~IsNone(acc.code) /\ ~last_wins
                      THEN [acc EXCEPT !.err = "Duplicate code URL found in group"]
                      ELSE [acc EXCEPT !.code = Some(url)]
                 [] kind = "dataset" ->
                      IF ~IsNone(acc.dataset) /\ ~last_wins
                      THEN [acc EXCEPT !.err = "Duplicate dataset URL found in group"]
                      ELSE [acc EXCEPT !.dataset = Some(url)]
                 [] OTHER -> [acc EXCEPT !.unknowns = Append(@, url)]
         IN  first_pass(Tail(urls), next, last_wins)

\* The body of classify_urls.
classify_urls_with(urls, last_wins) ==
    IF urls = <<>> THEN UrlsError("At least one URL is required.")
    ELSE IF Len(urls) > 3 THEN UrlsError("No more than 3 URLs allowed.")
    ELSE LET acc == first_pass(urls,
                       [model |-> None, code |-> None, dataset |-> None,
                        unknowns |-> <<>>, err |-> ""], last_wins)
             remaining_slots ==
                 (IF IsNone(acc.model) THEN <<"model">> ELSE <<>>)
                 \o (IF IsNone(acc.code) THEN <<"code">> ELSE <<>>)
                 \o (IF IsNone(acc.dataset) THEN <<"dataset">> ELSE <<>>)
             n == IF Len(acc.unknowns) < Len(remaining_slots)
                  THEN Len(acc.unknowns) ELSE Len(remaining_slots)
             fill(slot, current) ==
                 IF \E i \in 1..n : remaining_slots[i] = slot
                 THEN Some(acc.unknowns[CHOOSE i \in 1..n :
                                            remaining_slots[i] = slot])
                 ELSE current
             model == fill("model", acc.model)
         IN  IF acc.err # "" THEN UrlsError(acc.err)
             ELSE IF IsNone(model)
             THEN UrlsError("At least one model URL is required.")
             ELSE URLSet(model, fill("code", acc.code),
                         fill("dataset", acc.dataset))

\* classify_urls keeping the last URL of a role found twice
classify_urls_last_wins(urls) == classify_urls_with(urls, TRUE)

\* classify_urls(urls)
classify_urls(urls) == classify_urls_with(urls, FALSE)

\* ------------------------------------------------------------------- Model
\* The three lazily cached metadata properties.  Each returns the Model as
\* the access leaves it (m) and the metadata (v); fetched counts the calls
\* of fetch_metadata made for the Model.
\* hf_metadata testing `if not self._hf_metadata`: an empty answer is fetched again.
hf_metadata_retrying(m, w) ==
    IF IsNone(m._hf_metadata) \/ Get(m._hf_metadata).empty
    THEN LET v == HuggingFaceFetcher(w, Some(m.modelLink))
         IN  [m |-> [m EXCEPT !._hf_metadata = Some(v),
                              !.fetched.hf = @ + 1],
              v |-> v]
    ELSE [m |-> m, v |-> Get(m._hf_metadata)]

hf_metadata(m, w) ==
    IF IsNone(m._hf_metadata)
    THEN LET v == HuggingFaceFetcher(w, Some(m.modelLink))
         IN  [m |-> [m EXCEPT !._hf_metadata = Some(v),
                              !.fetched.hf = @ + 1],
              v |-> v]
    ELSE [m |-> m, v |-> Get(m._hf_metadata)]

github_metadata(m, w) ==
    IF IsNone(m._github_metadata)
    THEN LET v == GitHubFetcher(w, m.codeLink)
         IN  [m |-> [m EXCEPT !._github_metadata = Some(v),
                              !.fetched.gh = @ + 1],
              v |-> v]
    ELSE [m |-> m, v |-> Get(m._github_metadata)]

dataset_metadata(m, w) ==
    IF IsNone(m._dataset_metadata)
    THEN LET v == DatasetFetcher(w, m.datasetLink)
         IN  [m |-> [m EXCEPT !._dataset_metadata = Some(v),
                              !.fetched.ds = @ + 1],
              v |-> v]
    ELSE [m |-> m, v |-> Get(m._dataset_metadata)]

\* _maybe_fill_dataset_from_hf: [m, table] after the call, table being the
\* class-level DATASET_NAME_TO_URL.
\* Dataset names a card may carry.
OtherDatasetUrl == "https://huggingface.co/datasets/other/set"
PaddedDatasetUrl == "https://huggingface.co/datasets/ acme/data "

\* raw.strip().lower()
NameKey(raw) ==
    CASE raw = "Acme/Data" -> "acme/data"
      [] raw = " acme/data " -> "acme/data"
      [] OTHER -> raw

\* "/" in raw and len(raw.split("/")) == 2, with org and ds non-empty
IsOrgName(raw) == raw \in {"acme/data", "Acme/Data", " acme/data ", "other/set"}

\* f"https://huggingface.co/datasets/{org}/{ds}"
DatasetUrlFor(raw) ==
    CASE raw = "acme/data" -> HFDatasetUrl
      [] raw = "Acme/Data" -> HFDatasetUrlCaps
      [] raw = " acme/data " -> PaddedDatasetUrl
      [] OTHER -> OtherDatasetUrl

\* for raw in names: the cached URL of the first name the table knows, or
\* the URL made of the first name of org/name form, which the table then keeps.
RECURSIVE fill_from_names(_, _, _)
fill_from_names(m, names, table) ==
    IF names = <<>> THEN [m |-> m, table |-> table]
    ELSE LET raw == Head(names)
             key == NameKey(raw)
         IN  IF key \in DOMAIN table /\ table[key] # ""
             THEN [m |-> [m EXCEPT !.datasetLink = Some(table[key])],
                   table |-> table]
             ELSE IF IsOrgName(raw)
             THEN [m |-> [m EXCEPT !.datasetLink = Some(DatasetUrlFor(raw))],
                   table |-> DictPut(table, key, DatasetUrlFor(raw))]
             ELSE fill_from_names(m, Tail(names), table)

\* _maybe_fill_dataset_from_hf making the URL from the name without asking
\* the table first, and storing it over whatever the table held
maybe_fill_dataset_from_hf_uncached(m, w, table) ==
    LET a == hf_metadata(m, w)
        r == fill_from_names(a.m, a.v.datasets, [k \in {} |-> ""])
    IN  IF a.v.empty \/ a.v.datasets = <<>> THEN [m |-> a.m, table |-> table]
        ELSE [m |-> r.m,
              table |-> [k \in (DOMAIN table) \cup (DOMAIN r.table) |->
                            IF k \in DOMAIN r.table THEN r.table[k] ELSE table[k]]]

maybe_fill_dataset_from_hf(m, w, table) ==
    LET a == hf_metadata(m, w)
    IN  IF a.v.empty \/ a.v.datasets = <<>> THEN [m |-> a.m, table |-> table]
        ELSE fill_from_names(a.m, a.v.datasets, table)

\* _maybe_fill_code_from_hf
maybe_fill_code_from_hf(m, w) ==
    LET a == hf_metadata(m, w)
    IN  IF a.v.empty THEN a.m
        ELSE IF a.v.repository # "" /\ HasGitHub(a.v.repository)
        THEN [a.m EXCEPT !.codeLink = Some(a.v.repository)]
        ELSE a.m

\* Model.__init__(urls): [ok, m, table]; ok = FALSE stands for the
\* exception the constructor raises.  The constructor resolves its URLs with
\* parse_urls_by_position.
NewModel(urlset) ==
    [modelLink |-> IF IsNone(urlset.model) THEN "" ELSE Get(urlset.model),
     codeLink |-> urlset.code,
     datasetLink |-> urlset.dataset,
     _hf_metadata |-> None,
     _github_metadata |-> None,
     _dataset_metadata |-> None,
     evaluations |-> EmptyDict,
     evaluationsLatency |-> [k \in {} |-> Zero],
     fetched |-> [hf |-> 0, gh |-> 0, ds |-> 0]]

\* A constructor that consults the card for both links whatever the input gave
ModelInit_always_filling(urls, w, table) ==
    LET urlset == parse_urls_by_position(urls)
        a == maybe_fill_dataset_from_hf(NewModel(urlset), w, table)
        m2 == maybe_fill_code_from_hf(a.m, w)
    IN  [ok |-> urlset.ok, m |-> m2, table |-> IF urlset.ok THEN a.table ELSE table]

\* Model(urls).  __init__ calls parse_urls_by_position, which Model.py does not
\* import; the name is taken to be the function of url_utils.  [ok, m, table].
ModelInit(urls, w, table) ==
    LET urlset == parse_urls_by_position(urls)
        m0 == NewModel(urlset)
        a == IF IsNone(m0.datasetLink)
             THEN maybe_fill_dataset_from_hf(m0, w, table)
             ELSE [m |-> m0, table |-> table]
        m2 == IF IsNone(a.m.codeLink)
              THEN maybe_fill_code_from_hf(a.m, w)
              ELSE a.m
    IN  [ok |-> urlset.ok, m |-> m2, table |-> IF urlset.ok THEN a.table ELSE table]


\* ----------------------------------------------------------------- metrics
\* Metric.evaluate(model) is modelled as [raised, score, m]: whether the call
\* raises, the score it returns, and the Model as the call leaves it (metadata
\* caches filled by the accesses the metric makes).
Returns(score, m) == [raised |-> FALSE, score |-> score, m |-> m]
Raises(m) == [raised |-> TRUE, score |-> NoneValue, m |-> m]

\* ---- LicenseMetric
LICENSE_COMPATIBILITY ==
    [l \in {"MIT", "BSD-2-Clause", "BSD-3-Clause", "LGPL-2.1",
            "LGPL-2.1-or-later", "GPL-2.0-or-later", "GPL-2.0", "MPL-2.0",
            "Unlicense", "Apache-2.0", "GPL-3.0", "LGPL-3.0", "AGPL-3.0",
            "Proprietary"} |->
        IF l \in {"MIT", "BSD-2-Clause", "BSD-3-Clause", "LGPL-2.1",
                  "LGPL-2.1-or-later", "GPL-2.0-or-later"} THEN One
        ELSE IF l \in {"GPL-2.0", "MPL-2.0", "Unlicense"} THEN Half
        ELSE Zero]

\* bool(x) of a value that is None, a string or a non-empty list
Truthy(v) == v.kind = "list" \/ (v.kind = "str" /\ v.s # "")

\* The model document the Hugging Face API returns for the repository id the
\* metric derives from the last two segments of the URL.
HFApiByTail(w, url) ==
    IF KnownUrl(url) /\ Len(PathParts(url)) >= 2
       /\ PathParts(url)[Len(PathParts(url)) - 1] = "acme"
       /\ PathParts(url)[Len(PathParts(url))] = "model"
    THEN w.hf ELSE None

get_license_from_huggingface(w, model_url) ==
    LET doc == HFApiByTail(w, model_url)
    IN  IF IsNone(doc) THEN PyStr("") ELSE Get(doc).license

get_spdx_license_from_github(w, repo_url) ==
    IF ~HasGitHub(repo_url) THEN PyStr("")
    ELSE IF PathParts(repo_url) = <<"acme", "repo">> /\ ~IsNone(w.gh)
         THEN Get(w.gh).license
         ELSE PyStr("")

\* A list-valued license is unhashable: the table lookup raises TypeError.
LicenseEvaluate(m, w) ==
    LET hf_id == IF m.modelLink # "" /\ HasHuggingFace(m.modelLink)
                 THEN get_license_from_huggingface(w, m.modelLink)
                 ELSE PyNone
        license_id ==
            IF ~Truthy(hf_id) /\ ~IsNone(m.codeLink) /\ HasGitHub(Get(m.codeLink))
            THEN get_spdx_license_from_github(w, Get(m.codeLink))
            ELSE hf_id
    IN  IF license_id.kind = "list" THEN Raises(m)
        ELSE IF license_id.kind = "str" /\ license_id.s \in DOMAIN LICENSE_COMPATIBILITY
        THEN Returns(FloatScore(LICENSE_COMPATIBILITY[license_id.s]), m)
        ELSE Returns(FloatScore(Half), m)

\* ---- AvailabilityMetric
check_huggingface_availability(w, url) ==
    IF HasDatasetsSegment(url)
    THEN PathParts(url)[Len(PathParts(url)) - 1] = "acme"
         /\ PathParts(url)[Len(PathParts(url))] = "data" /\ w.ds
    ELSE ~IsNone(HFApiByTail(w, url))

check_github_availability(w, url) ==
    PathParts(url) = <<"acme", "repo">> /\ ~IsNone(w.gh)

AvailabilityEvaluate(m, w) ==
    LET probes ==
            (IF m.modelLink # "" /\ HasHuggingFace(m.modelLink)
             THEN <<check_huggingface_availability(w, m.modelLink)>> ELSE <<>>)
            \o (IF ~IsNone(m.codeLink) /\ HasGitHub(Get(m.codeLink))
                THEN <<check_github_availability(w, Get(m.codeLink))>> ELSE <<>>)
            \o (IF ~IsNone(m.datasetLink) /\ HasHuggingFace(Get(m.datasetLink))
                THEN <<check_huggingface_availability(w, Get(m.datasetLink))>>
                ELSE <<>>)
        total_checks == Len(probes)
        successful_checks == Cardinality({i \in 1..Len(probes) : probes[i]})
    IN  IF total_checks = 0 THEN Returns(FloatScore(Zero), m)
        ELSE Returns(FloatScore(Rat(successful_checks, total_checks)), m)

\* ---- PerformanceClaimsMetric
\* _score_claim, by the class of the claim (tenths)
score_claim(c) ==
    CASE c = "number_metric_benchmark" -> Rat(10, 10)
      [] c = "number_metric" -> Rat(8, 10)
      [] c = "metric_benchmark" -> Rat(6, 10)
      [] c = "metric" -> Rat(4, 10)
      [] c = "benchmark" -> Rat(2, 10)
      [] OTHER -> Zero

\* sorted(xs, reverse=True) for a list of floats
RECURSIVE SortDescRat(_)
SortDescRat(xs) ==
    IF xs = <<>> THEN <<>>
    ELSE LET i == CHOOSE j \in 1..Len(xs) :
                     \A k \in 1..Len(xs) : RLeq(xs[k], xs[j])
         IN  <<xs[i]>> \o SortDescRat(SubSeq(xs, 1, i - 1) \o SubSeq(xs, i + 1, Len(xs)))

Take(xs, n) == SubSeq(xs, 1, IF Len(xs) < n THEN Len(xs) ELSE n)

normalize_score(v) == RMax(Zero, RMin(One, v))

PerformanceClaimsEvaluate(m, w) ==
    LET a == IF m.modelLink # "" /\ HasHuggingFace(m.modelLink)
             THEN hf_metadata(m, w) ELSE [m |-> m, v |-> EmptyHF]
        hf_claims == a.v.claims
        b == IF ~IsNone(a.m.codeLink) /\ HasGitHub(Get(a.m.codeLink))
             THEN github_metadata(a.m, w) ELSE [m |-> a.m, v |-> EmptyGH]
        \* GitHubFetcher stores no "description": the GitHub side adds no claim
        claims_found == hf_claims
        scores == SortDescRat([i \in 1..Len(claims_found) |->
                                  normalize_score(score_claim(claims_found[i]))])
        topk == Take(scores, 3)
    IN  IF claims_found = <<>> THEN Returns(FloatScore(Zero), b.m)
        ELSE Returns(FloatScore(normalize_score(
                        RDiv(RSumSeq(topk), RInt(Len(topk))))), b.m)


\* ---- BusFactorMetric
LARGE_COMPANIES ==
    {"google", "facebook", "microsoft", "openai", "huggingface",
     "amazon", "ibm", "apple", "tencent", "baidu"}

MAX_TOP_CONTRIBS == 10

\* id.split("/")[0] for the model ids of the samples
OrgOfId(id) ==
    CASE id = "google/model" -> "google"
      [] id = "acme/model" -> "acme"
      [] OTHER -> id

\* sorted(xs, reverse=True) for a list of ints
RECURSIVE SortDescInt(_)
SortDescInt(xs) ==
    IF xs = <<>> THEN <<>>
    ELSE LET i == CHOOSE j \in 1..Len(xs) : \A k \in 1..Len(xs) : xs[k] <= xs[j]
         IN  <<xs[i]>> \o SortDescInt(SubSeq(xs, 1, i - 1) \o SubSeq(xs, i + 1, Len(xs)))

\* bus_factor_score without the cut to the top MAX_TOP_CONTRIBS contributors
bus_factor_score_all_contributors(contributors) ==
    LET contrib_counts == SortDescInt(contributors)
        num_contribs == Len(contrib_counts)
        max_contrib == contrib_counts[1]
        min_contrib == contrib_counts[num_contribs]
        distribution_score == IF max_contrib = 0 THEN Zero
                              ELSE Rat(min_contrib, max_contrib)
        max_score == Rat(IF num_contribs < MAX_TOP_CONTRIBS THEN num_contribs
                         ELSE MAX_TOP_CONTRIBS, 10)
    IN  IF contributors = <<>> THEN Zero
        ELSE RMul(distribution_score, max_score)

\* BusFactorMetric.evaluate: the score from the contributors' commit counts
bus_factor_score(contributors) ==
    LET contrib_counts == Take(SortDescInt(contributors), MAX_TOP_CONTRIBS)
        num_contribs == Len(contrib_counts)
        max_contrib == contrib_counts[1]
        min_contrib == contrib_counts[num_contribs]
        distribution_score == IF max_contrib = 0 THEN Zero
                              ELSE Rat(min_contrib, max_contrib)
        max_score == Rat(IF num_contribs < MAX_TOP_CONTRIBS THEN num_contribs
                         ELSE MAX_TOP_CONTRIBS, 10)
    IN  IF contributors = <<>> THEN Zero
        ELSE RMul(distribution_score, max_score)

BusFactorEvaluate(m, w) ==
    LET a == hf_metadata(m, w)
        author == IF a.v.empty THEN ""
                  ELSE IF a.v.author # "" THEN a.v.author ELSE OrgOfId(a.v.id)
        b == github_metadata(a.m, w)
        contributors == IF b.v.empty THEN <<>> ELSE b.v.contributors
    IN  IF author \in LARGE_COMPANIES THEN Returns(FloatScore(One), a.m)
        ELSE Returns(FloatScore(bus_factor_score(contributors)), b.m)

\* ---- SizeMetric
\* usable memory of each device class, in GB, in the order of DEVICE_SPECS
DEVICE_SPECS ==
    << <<"raspberry_pi", 2>>, <<"jetson_nano", 3>>,
       <<"desktop_pc", 20>>, <<"aws_server", 60>> >>

DEFAULT_BYTES_PER_PARAM == 2

\* bytes per parameter: bits / 8 of the dtype found, else the default
extract_bytes_from_dtype(doc) ==
    IF doc.bits > 0 THEN Rat(doc.bits, 8) ELSE RInt(DEFAULT_BYTES_PER_PARAM)

\* size in GB taking every parameter to have the default width
model_size_gb_default_width(doc) ==
    RMul(RInt(doc.params), RInt(DEFAULT_BYTES_PER_PARAM))

\* size in GB; params counts units of 2^30 parameters, so that
\* params * bytes / 1024^3 is params * bytes here.
model_size_gb(doc) == RMul(RInt(doc.params), extract_bytes_from_dtype(doc))

\* The per-device score without the clamp to [0, 1].
device_score_unclamped(usable_memory, size_gb) ==
    RDiv(RSub(RInt(usable_memory), size_gb), RInt(usable_memory))

device_score(usable_memory, size_gb) ==
    RMax(Zero, RMin(One, RDiv(RSub(RInt(usable_memory), size_gb),
                              RInt(usable_memory))))

ZeroDevices ==
    DictScore([i \in 1..Len(DEVICE_SPECS) |-> <<DEVICE_SPECS[i][1], Zero>>])

SizeEvaluate(m, w) ==
    LET a == hf_metadata(m, w)
    IN  IF a.v.empty \/ a.v.params <= 0 THEN Returns(ZeroDevices, a.m)
        ELSE Returns(DictScore([i \in 1..Len(DEVICE_SPECS) |->
                        <<DEVICE_SPECS[i][1],
                          device_score(DEVICE_SPECS[i][2], model_size_gb(a.v))>>]),
                     a.m)

\* ---- CodeQualityMetric
\* min(n // per * 0.01, 0.1)
popularity_part(n, per) == RMin(Rat(n \div per, 100), Rat(1, 10))

\* GitHubFetcher stores no "commits_count": the commit score is 0.
calculate_commit_score == Zero

evaluate_testing_quality(c) ==
    IF c.sources = 0 THEN Zero
    ELSE RMin(RMul(Rat(c.tests, c.sources), Rat(3, 10)), Rat(3, 10))

evaluate_documentation(c) ==
    RAdd(RAdd(IF c.license THEN Rat(5, 100) ELSE Zero,
              IF c.readme THEN Rat(5, 100) ELSE Zero),
         IF c.contributing THEN Rat(10, 100) ELSE Zero)

\* The metric reads the backing field _github_metadata, not the property:
\* it never fetches, and sees None until some other access has fetched.
CodeQualityEvaluate(m, w) ==
    LET gh_meta == IF IsNone(m._github_metadata) THEN EmptyGH
                   ELSE Get(m._github_metadata)
        base == RAdd(RAdd(popularity_part(Get(gh_meta.stars), 50),
                          popularity_part(Get(gh_meta.forks), 10)),
                     calculate_commit_score)
    IN  IF gh_meta.empty THEN Returns(FloatScore(Zero), m)
        \* None // 50 raises TypeError outside the try block
        ELSE IF IsNone(gh_meta.stars) \/ IsNone(gh_meta.forks) THEN Raises(m)
        ELSE IF ~gh_meta.clone_url \/ IsNone(w.clone)
        THEN Returns(FloatScore(RMin(base, One)), m)
        ELSE Returns(FloatScore(RMin(
                 RAdd(RAdd(base, evaluate_testing_quality(Get(w.clone))),
                      evaluate_documentation(Get(w.clone))), One)), m)

\* ---- DatasetQualityMetric
\* _parse_score on the first number of the answer (hundredths), then the
\* clamp of _get_llm_score; None when no score comes back.
parse_score(n) ==
    IF n <= 100 THEN Some(Rat(n, 100))
    ELSE IF n <= 1000 THEN Some(Rat(n, 1000))
    ELSE IF n <= 10000 THEN Some(Rat(n, 10000))
    ELSE None

get_llm_score(w) ==
    IF IsNone(w.llm) THEN None
    ELSE IF IsNone(parse_score(Get(w.llm))) THEN None
    ELSE Some(normalize_score(Get(parse_score(Get(w.llm)))))

DatasetQualityEvaluate(m, w) ==
    LET a == dataset_metadata(m, w)
        score == get_llm_score(w)
    IN  IF a.v.empty THEN Returns(FloatScore(Zero), a.m)
        ELSE IF IsNone(score) THEN Returns(FloatScore(Zero), a.m)
        ELSE Returns(FloatScore(Get(score)), a.m)

\* ---- RampUpMetric
\* The attributes the metric probes for a repository id; a Model carries
\* none of them, so the metric stops at "no model id/url".
ModelAttributes ==
    {"modelLink", "codeLink", "datasetLink", "_hf_metadata",
     "_github_metadata", "_dataset_metadata", "_github_token",
     "evaluations", "evaluationsLatency"}

RampUpRepoIdAttributes == {"model_id", "model_url", "metadata"}

\* 0.20 for each of the five checklist signals that holds
ramp_up_score(signals) == Rat(2 * Cardinality(signals), 10)

RampUpEvaluate(m, w) ==
    IF RampUpRepoIdAttributes \cap ModelAttributes = {}
    THEN Returns(FloatScore(Zero), m)
    ELSE Returns(FloatScore(ramp_up_score(w.signals)), m)

\* ---- dispatch on the metric's class
MetricEvaluate(name, m, w) ==
    CASE name = LicenseMetric -> LicenseEvaluate(m, w)
      [] name = AvailabilityMetric -> AvailabilityEvaluate(m, w)
      [] name = PerformanceClaimsMetric -> PerformanceClaimsEvaluate(m, w)
      [] name = BusFactorMetric -> BusFactorEvaluate(m, w)
      [] name = SizeMetric -> SizeEvaluate(m, w)
      [] name = CodeQualityMetric -> CodeQualityEvaluate(m, w)
      [] name = DatasetQualityMetric -> DatasetQualityEvaluate(m, w)
      [] OTHER -> RampUpEvaluate(m, w)


\* ------------------------------------------------- Model: evaluate and co.
\* Model.evaluate(metric), elapsed being end - start of the two time.time()
\* readings: [raised, m].  When the metric raises nothing is stored.
\* Model.evaluate keeping the entries a metric already has
ModelEvaluate_first_write_wins(m, name, w, elapsed) ==
    Bind(MetricEvaluate(name, m, w), LAMBDA r :
        IF r.raised THEN [raised |-> TRUE, m |-> r.m]
        ELSE IF name \in DOMAIN m.evaluations THEN [raised |-> FALSE, m |-> r.m]
        ELSE [raised |-> FALSE,
              m |-> [r.m EXCEPT
                       !.evaluations = DictPut(@, name, r.score),
                       !.evaluationsLatency = DictPut(@, name, elapsed)]])

\* evaluate storing the score without its latency
ModelEvaluate_untimed(m, name, w, elapsed) ==
    Bind(MetricEvaluate(name, m, w), LAMBDA r :
        IF r.raised THEN [raised |-> TRUE, m |-> r.m]
        ELSE [raised |-> FALSE,
              m |-> [r.m EXCEPT !.evaluations = DictPut(@, name, r.score)]])

\* Model.evaluate(metric): [raised, m]
ModelEvaluate(m, name, w, elapsed) ==
    Bind(MetricEvaluate(name, m, w), LAMBDA r :
        IF r.raised THEN [raised |-> TRUE, m |-> r.m]
        ELSE [raised |-> FALSE,
              m |-> [r.m EXCEPT
                       !.evaluations = DictPut(@, name, r.score),
                       !.evaluationsLatency = DictPut(@, name, elapsed)]])

\* computeNetScore summing every stored latency, the previous NetScore
\* latency included.
ModelComputeNetScore_accumulating(m) ==
    IF NetScoreRaises(m.evaluations)
    THEN [raised |-> TRUE, m |-> m, ret |-> Zero]
    ELSE [raised |-> FALSE,
          m |-> [m EXCEPT
                   !.evaluations =
                       DictPut(@, NetScore, FloatScore(net_score(m.evaluations))),
                   !.evaluationsLatency =
                       DictPut(@, NetScore,
                               SumLatencies(m.evaluationsLatency,
                                            DOMAIN m.evaluationsLatency))],
          ret |-> net_score(m.evaluations)]

\* computeNetScore writing the mean it took of the device scores back in
\* place of the SizeMetric mapping
ModelComputeNetScore_flattening(m) ==
    IF NetScoreRaises(m.evaluations)
    THEN [raised |-> TRUE, m |-> m, ret |-> Zero]
    ELSE LET lat0 == DictPut(m.evaluationsLatency, NetScore, Zero)
             flat == IF SizeMetric \in DOMAIN m.evaluations
                     THEN DictPut(m.evaluations, SizeMetric,
                                  safe_score(m.evaluations, SizeMetric))
                     ELSE m.evaluations
         IN  [raised |-> FALSE,
              m |-> [m EXCEPT
                       !.evaluations =
                           DictPut(flat, NetScore, FloatScore(net_score(m.evaluations))),
                       !.evaluationsLatency =
                           DictPut(lat0, NetScore, NetScoreLatency(lat0))],
              ret |-> net_score(m.evaluations)]

\* Model.computeNetScore(): [raised, m, ret]
ModelComputeNetScore(m) ==
    IF NetScoreRaises(m.evaluations)
    THEN [raised |-> TRUE, m |-> m, ret |-> Zero]
    ELSE LET lat0 == DictPut(m.evaluationsLatency, NetScore, Zero)
         IN  [raised |-> FALSE,
              m |-> [m EXCEPT
                       !.evaluations =
                           DictPut(@, NetScore, FloatScore(net_score(m.evaluations))),
                       !.evaluationsLatency =
                           DictPut(lat0, NetScore, NetScoreLatency(lat0))],
              ret |-> net_score(m.evaluations)]

\* Model.evaluate_all(metrics): [raised, m]; a metric that raises ends the
\* call before the remaining metrics and before computeNetScore.
RECURSIVE ModelEvaluateAll(_, _, _, _)
ModelEvaluateAll(m, metrics, w, elapsed) ==
    IF metrics = <<>>
    THEN Bind(ModelComputeNetScore(m), LAMBDA c : [raised |-> c.raised, m |-> c.m])
    ELSE Bind(ModelEvaluate(m, Head(metrics), w, elapsed), LAMBDA e :
            IF e.raised THEN e
            ELSE ModelEvaluateAll(e.m, Tail(metrics), w, elapsed))


\* ------------------------------------------------- Model: read accessors
\* floor of a rational
RFloor(r) == IF r[1] >= 0 THEN r[1] \div r[2] ELSE -((-r[1] + r[2] - 1) \div r[2])

\* round(value, 2): nearest hundredth, a tie going to the even hundredth
round2(r) ==
    LET x == RMul(r, RInt(100))
        lo == RFloor(x)
        frac == RSub(x, RInt(lo))
    IN  IF RLt(frac, Half) THEN Rat(lo, 100)
        ELSE IF RLt(Half, frac) THEN Rat(lo + 1, 100)
        ELSE IF lo % 2 = 0 THEN Rat(lo, 100) ELSE Rat(lo + 1, 100)

\* getScore using 0.0 for a missing entry whatever default the caller gave.
getScore_default_ignored(m, metric_name, default) ==
    LET value == IF metric_name \in DOMAIN m.evaluations
                 THEN m.evaluations[metric_name] ELSE FloatScore(Zero)
    IN  IF value.kind = "dict"
        THEN DictScore([i \in 1..Len(value.d) |->
                           <<value.d[i][1], round2(value.d[i][2])>>])
        ELSE FloatScore(round2(value.f))

\* Model.getScore(metric_name, default)
getScore(m, metric_name, default) ==
    LET value == IF metric_name \in DOMAIN m.evaluations
                 THEN m.evaluations[metric_name] ELSE default
    IN  IF value.kind = "dict"
        THEN DictScore([i \in 1..Len(value.d) |->
                           <<value.d[i][1], round2(value.d[i][2])>>])
        ELSE FloatScore(round2(value.f))

\* int(x): truncation towards zero
IntTrunc(r) == IF r[1] >= 0 THEN r[1] \div r[2] ELSE -((-r[1]) \div r[2])

\* Model.getLatency(metric_name): whole milliseconds
getLatency_default_one(m, metric_name) ==
    IntTrunc(RMul(IF metric_name \in DOMAIN m.evaluationsLatency
                  THEN m.evaluationsLatency[metric_name] ELSE One,
                  RInt(1000)))

\* Model.getLatency(metric_name)
getLatency(m, metric_name) ==
    IntTrunc(RMul(IF metric_name \in DOMAIN m.evaluationsLatency
                  THEN m.evaluationsLatency[metric_name] ELSE Zero,
                  RInt(1000)))

\* Model.name: hf_metadata["id"].split("/")[1], "UNKNOWN_MODEL" on failure
ModelName(m, w) ==
    LET a == hf_metadata(m, w)
    IN  [m |-> a.m,
         v |-> IF a.v.id \in {"acme/model", "google/model"} THEN "model"
               ELSE "UNKNOWN_MODEL"]

\* --------------------------------------------------------- ModelCatalogue
\* getModelNDJSON(model): [m, rec]
getModelNDJSON(m, w) ==
    LET n == ModelName(m, w)
        x == n.m
    IN  [m |-> x,
         rec |->
           [name |-> n.v,
            category |-> "MODEL",
            net_score |-> getScore(x, NetScore, FloatScore(Zero)),
            net_score_latency |-> getLatency(x, NetScore),
            ramp_up_time |-> getScore(x, RampUpMetric, FloatScore(Zero)),
            ramp_up_time_latency |-> getLatency(x, RampUpMetric),
            bus_factor |-> getScore(x, BusFactorMetric, FloatScore(Zero)),
            bus_factor_latency |-> getLatency(x, BusFactorMetric),
            performance_claims |->
                getScore(x, PerformanceClaimsMetric, FloatScore(Zero)),
            performance_claims_latency |-> getLatency(x, PerformanceClaimsMetric),
            license |-> getScore(x, LicenseMetric, FloatScore(Zero)),
            license_latency |-> getLatency(x, LicenseMetric),
            size_score |-> getScore(x, SizeMetric, DictScore(<<>>)),
            size_score_latency |-> getLatency(x, SizeMetric),
            dataset_and_code_score |->
                getScore(x, AvailabilityMetric, FloatScore(Zero)),
            dataset_and_code_score_latency |-> getLatency(x, AvailabilityMetric),
            dataset_quality |-> getScore(x, DatasetQualityMetric, FloatScore(Zero)),
            dataset_quality_latency |-> getLatency(x, DatasetQualityMetric),
            code_quality |-> getScore(x, CodeQualityMetric, FloatScore(Zero)),
            code_quality_latency |-> getLatency(x, CodeQualityMetric)]]

\* generateReport(): the records of all models, in the order of self.models,
\* and the models as the accesses of the report leave them.
RECURSIVE generateReport(_, _)
generateReport(ms, w) ==
    IF ms = <<>> THEN [ms |-> <<>>, recs |-> <<>>]
    ELSE LET h == getModelNDJSON(Head(ms), w)
             t == generateReport(Tail(ms), w)
         IN  [ms |-> <<h.m>> \o t.ms, recs |-> <<h.rec>> \o t.recs]

\* addModel(model)
addModel(ms, m) == Append(ms, m)


\* ------------------------------------------------------------------ state
VARIABLES
    world,                \* the outside world (fixed during a catalogue run)
    DATASET_NAME_TO_URL,  \* Model.DATASET_NAME_TO_URL (class variable)
    models,               \* ModelCatalogue.models
    pc,                   \* where run_catalogue (or the caller) stands
    linesRead,            \* input lines consumed so far
    success,              \* run_catalogue's success flag
    mi,                   \* evaluateModels: index of the model in progress
    ki,                   \* evaluate_all: index of the next metric
    log,                  \* calls made so far: <<model index, callee>>, with
                          \* the elapsed time measured where a caller notes it
    report,               \* the records generateReport returned
    ret,                  \* Option: what the last computeNetScore returned
    evaluated,            \* metrics evaluated so far by a caller of Model.evaluate
    snapshot,             \* Option: the Model as a caller saw it earlier
    metricsArg,           \* the list a caller passes to evaluate_all
    urlsArg,              \* the list a caller passes to the url_utils functions
    urlsRet               \* Option: what the url_utils functions answered

vars == <<world, DATASET_NAME_TO_URL, models, pc, linesRead, success,
          mi, ki, log, report, ret, evaluated, snapshot, metricsArg,
          urlsArg, urlsRet>>

\* the variables only callers of the Model API use
caller == <<evaluated, snapshot, metricsArg, urlsArg, urlsRet>>

\* The lines of the input file, as the fields that line.split(',') and
\* strip() give.
LineSamples ==
    { <<GitHubUrl, HFDatasetUrl, HFModelUrl>>,
      <<"none", "None", HFModelUrl>>,
      <<GitHubUrl, "N/A", HFModelUrl>>,
      <<"", "", HFModelUrl>>,
      <<HFModelUrl>> }

\* [url for url in parts if url]
RECURSIVE NonEmptyFields(_)
NonEmptyFields(parts) ==
    IF parts = <<>> THEN <<>>
    ELSE IF Head(parts) = "" THEN NonEmptyFields(Tail(parts))
    ELSE <<Head(parts)>> \o NonEmptyFields(Tail(parts))

\* Seconds between the two clock readings around each metric in a run.
MetricElapsed(name) ==
    CASE name = LicenseMetric -> Rat(1, 4)
      [] name = AvailabilityMetric -> Rat(3, 10)
      [] name = CodeQualityMetric -> Rat(2, 1)
      [] name = DatasetQualityMetric -> Rat(3, 2000)
      [] OTHER -> Zero

TypeOK ==
    /\ pc \in {"reading", "evaluating", "done", "crashed", "fresh", "set",
               "computed", "ordering", "first", "second", "reported",
               "parsing", "parsed", "validating", "exited",
               "classified_url", "classified", "constructed", "metric",
               "bundled", "constructing"}
    /\ linesRead \in 0..MaxLines
    /\ success \in BOOLEAN
    /\ Len(models) <= MaxLines

\* ------------------------------------------------ run_catalogue (the run)
Init ==
    /\ world \in {w \in Worlds : NormalWorld(w)}
    /\ DATASET_NAME_TO_URL = [k \in {} |-> ""]
    /\ models = <<>>
    /\ pc = "reading"
    /\ linesRead = 0
    /\ success = TRUE
    /\ mi = 1
    /\ ki = 1
    /\ log = <<>>
    /\ report = <<>>
    /\ ret = None
    /\ evaluated = {}
    /\ snapshot = None
    /\ metricsArg = <<>>
    /\ urlsArg = <<>>
    /\ urlsRet = None

\* One iteration of the loop over the input lines.
ReadLine(line) ==
    /\ pc = "reading"
    /\ linesRead < MaxLines
    /\ linesRead' = linesRead + 1
    /\ IF Len(line) # 3
       THEN /\ success' = FALSE
            /\ UNCHANGED <<models, DATASET_NAME_TO_URL>>
       ELSE LET r == ModelInit(NonEmptyFields(line), world, DATASET_NAME_TO_URL)
            IN  IF r.ok
                THEN /\ models' = addModel(models, r.m)
                     /\ DATASET_NAME_TO_URL' = r.table
                     /\ UNCHANGED success
                ELSE /\ success' = FALSE
                     /\ UNCHANGED <<models, DATASET_NAME_TO_URL>>
    /\ UNCHANGED <<world, pc, mi, ki, log, report, ret, caller>>

\* End of the input: evaluateModels starts.
EndOfInput ==
    /\ pc = "reading"
    /\ pc' = "evaluating"
    /\ mi' = 1
    /\ ki' = 1
    /\ UNCHANGED <<world, DATASET_NAME_TO_URL, models, linesRead, success,
                   log, report, ret, caller>>

\* evaluate_all: self.evaluate(metric) for the next metric of the catalogue.
\* An exception of the metric leaves evaluateModels and run_catalogue.
EvaluateStep ==
    /\ pc = "evaluating"
    /\ mi <= Len(models)
    /\ ki <= Len(CatalogueMetrics)
    /\ LET name == CatalogueMetrics[ki]
           e == ModelEvaluate(models[mi], name, world, MetricElapsed(name))
       IN  /\ models' = [models EXCEPT ![mi] = e.m]
           /\ log' = Append(log, <<mi, name>>)
           /\ IF e.raised
              THEN pc' = "crashed" /\ UNCHANGED ki
              ELSE pc' = pc /\ ki' = ki + 1
    /\ UNCHANGED <<world, DATASET_NAME_TO_URL, linesRead, success, mi,
                   report, ret, caller>>

\* computeNetScore called when one metric is still to be evaluated.
NetScoreStep_early ==
    /\ pc = "evaluating"
    /\ mi <= Len(models)
    /\ ki = Len(CatalogueMetrics)
    /\ LET c == ModelComputeNetScore(models[mi])
       IN  /\ models' = [models EXCEPT ![mi] = c.m]
           /\ ret' = Some(c.ret)
           /\ pc' = IF c.raised THEN "crashed" ELSE pc
    /\ log' = Append(log, <<mi, NetScore>>)
    /\ mi' = mi + 1
    /\ ki' = 1
    /\ UNCHANGED <<world, DATASET_NAME_TO_URL, linesRead, success, report,
                   caller>>

\* evaluate_all: self.computeNetScore() after the last metric.
NetScoreStep ==
    /\ pc = "evaluating"
    /\ mi <= Len(models)
    /\ ki = Len(CatalogueMetrics) + 1
    /\ LET c == ModelComputeNetScore(models[mi])
       IN  /\ models' = [models EXCEPT ![mi] = c.m]
           /\ ret' = Some(c.ret)
           /\ pc' = IF c.raised THEN "crashed" ELSE pc
    /\ log' = Append(log, <<mi, NetScore>>)
    /\ mi' = mi + 1
    /\ ki' = 1
    /\ UNCHANGED <<world, DATASET_NAME_TO_URL, linesRead, success, report,
                   caller>>

\* print(catalogue.generateReport()) and the return of run_catalogue.
GenerateReport ==
    /\ pc = "evaluating"
    /\ mi > Len(models)
    /\ LET g == generateReport(models, world)
       IN  /\ models' = g.ms
           /\ report' = g.recs
    /\ pc' = "done"
    /\ UNCHANGED <<world, DATASET_NAME_TO_URL, linesRead, success, mi, ki,
                   log, ret, caller>>

Next ==
    \/ \E line \in LineSamples : ReadLine(line)
    \/ EndOfInput
    \/ EvaluateStep
    \/ NetScoreStep
    \/ GenerateReport

Spec == Init /\ [][Next]_vars


\* --------------------------------------- computeNetScore on a given map
\* The unit tests build a Model and assign its evaluations map directly
\* (make_mock_model), then call computeNetScore.  The maps below cover every
\* combination of: the license score absent, 0, 0.5 or 1; the size entry
\* absent, an empty dict, a float, a one-key dict or the four-device dict;
\* every other metric absent, 0.5 or 1.
LicenseOptions == {None, Some(FloatScore(Zero)), Some(FloatScore(Half)),
                   Some(FloatScore(One))}

SizeOptions ==
    {None, Some(DictScore(<<>>)), Some(FloatScore(Rat(6, 10))),
     Some(DictScore(<< <<"average", Rat(9, 10)>> >>)),
     Some(DictScore(<< <<"raspberry_pi", Rat(6, 10)>>, <<"jetson_nano", Rat(6, 10)>>,
                       <<"desktop_pc", Rat(8, 10)>>, <<"aws_server", Rat(8, 10)>> >>))}

ScalarOptions == {None, Some(FloatScore(Half)), Some(FloatScore(One))}

EvalMap(l, sz, r, b, a, d, c, p) ==
    LET o == [k \in MetricNames |->
                CASE k = LicenseMetric -> l
                  [] k = SizeMetric -> sz
                  [] k = RampUpMetric -> r
                  [] k = BusFactorMetric -> b
                  [] k = AvailabilityMetric -> a
                  [] k = DatasetQualityMetric -> d
                  [] k = CodeQualityMetric -> c
                  [] OTHER -> p]
    IN  [k \in {x \in MetricNames : ~IsNone(o[x])} |-> Get(o[k])]

EvalSamples ==
    { EvalMap(l, sz, r, b, a, d, c, p) :
        l \in LicenseOptions, sz \in SizeOptions, r \in ScalarOptions,
        b \in ScalarOptions, a \in ScalarOptions, d \in ScalarOptions,
        c \in ScalarOptions, p \in ScalarOptions }

\* A world in which every service answers.
FullWorld ==
    [hf |-> Some(HFDoc("acme", "acme/model", PyStr("MIT"), <<>>, "", 1, 0, <<>>)),
     gh |-> Some(GHDoc(<<10, 10, 10>>, PyStr("MIT"), Some(150), Some(30), TRUE)),
     ds |-> TRUE, llm |-> Some(85), clone |-> None,
     signals |-> ChecklistSignals]

InitHarness ==
    /\ world = FullWorld
    /\ DATASET_NAME_TO_URL = [k \in {} |-> ""]
    /\ models = <<ModelInit(<<GitHubUrl, HFDatasetUrl, HFModelUrl>>, world,
                            DATASET_NAME_TO_URL).m>>
    /\ pc = "fresh"
    /\ linesRead = 0
    /\ success = TRUE
    /\ mi = 1
    /\ ki = 1
    /\ log = <<>>
    /\ report = <<>>
    /\ ret = None
    /\ evaluated = {}
    /\ snapshot = None
    /\ metricsArg = <<>>
    /\ urlsArg = <<>>
    /\ urlsRet = None

\* model.evaluations = evals
SetEvaluations(evals) ==
    /\ pc = "fresh"
    /\ models' = [models EXCEPT ![1].evaluations = evals]
    /\ pc' = "set"
    /\ UNCHANGED <<world, DATASET_NAME_TO_URL, linesRead, success, mi, ki,
                   log, report, ret, caller>>

\* model.computeNetScore()
ComputeNetScore ==
    /\ pc \in {"fresh", "set", "computed"}
    /\ LET c == ModelComputeNetScore(models[1])
       IN  /\ models' = [models EXCEPT ![1] = c.m]
           /\ ret' = IF c.raised THEN None ELSE Some(c.ret)
           /\ pc' = IF c.raised THEN "crashed" ELSE "computed"
    /\ UNCHANGED <<world, DATASET_NAME_TO_URL, linesRead, success, mi, ki,
                   log, report, caller>>

NextHarness ==
    \/ \E evals \in EvalSamples : SetEvaluations(evals)
    \/ ComputeNetScore

SpecHarness == InitHarness /\ [][NextHarness]_vars


\* ------------------------------------------------ properties of NetScore
\* C1: after computeNetScore, a stored LicenseMetric score of 0.0 makes the
\* stored NetScore 0.0, whatever the other seven scores are.
C1_LicenseGate ==
    \A i \in 1..Len(models) :
        LET e == models[i].evaluations
        IN  (/\ pc = "computed"
             /\ LicenseMetric \in DOMAIN e
             /\ e[LicenseMetric] = FloatScore(Zero))
            => e[NetScore] = FloatScore(Zero)

\* A model with a zero license score whose seven other scores are all
\* stored and positive has had its NetScore computed.
C1_Witness ==
    /\ pc = "computed"
    /\ LET e == models[1].evaluations
       IN  /\ MetricNames \subseteq DOMAIN e
           /\ e[LicenseMetric] = FloatScore(Zero)
           /\ e[SizeMetric].kind = "dict" /\ Len(e[SizeMetric].d) = 4
           /\ \A k \in MetricNames \ {LicenseMetric, SizeMetric} :
                 e[k] = FloatScore(One)
           /\ e[NetScore] = FloatScore(Zero)

\* C3: computeNetScore stores and returns
\* license * (0.2 size + 0.3 rampUp + 0.1 busFactor + 0.1 availability
\*            + 0.1 datasetQuality + 0.1 codeQuality + 0.1 performanceClaims)
\* where size is the arithmetic mean of the stored SizeMetric mapping and
\* every other term is the stored scalar.
C3_Formula ==
    LET e == models[1].evaluations
        size == RDiv(RSumSeq(DictValues(e[SizeMetric].d)),
                     RInt(Len(e[SizeMetric].d)))
        expected ==
            RMul(e[LicenseMetric].f,
                 RAdd(RMul(Rat(2, 10), size),
                 RAdd(RMul(Rat(3, 10), e[RampUpMetric].f),
                 RAdd(RMul(Rat(1, 10), e[BusFactorMetric].f),
                 RAdd(RMul(Rat(1, 10), e[AvailabilityMetric].f),
                 RAdd(RMul(Rat(1, 10), e[DatasetQualityMetric].f),
                 RAdd(RMul(Rat(1, 10), e[CodeQualityMetric].f),
                      RMul(Rat(1, 10), e[PerformanceClaimsMetric].f))))))))
    IN  (/\ pc = "computed"
         /\ MetricNames \subseteq DOMAIN e
         /\ e[SizeMetric].kind = "dict" /\ e[SizeMetric].d # <<>>
         /\ \A k \in MetricNames \ {SizeMetric} : e[k].kind = "float")
        => /\ e[NetScore] = FloatScore(expected)
           /\ ret = Some(expected)

\* License 0.5, size mean 0.7, rampUp 1, busFactor 0.5, the rest 1:
\* 0.5 * (0.14 + 0.3 + 0.05 + 0.4) = 0.445.
C3_Witness ==
    /\ pc = "computed"
    /\ LET e == models[1].evaluations
       IN  /\ MetricNames \subseteq DOMAIN e
           /\ e[LicenseMetric] = FloatScore(Half)
           /\ e[SizeMetric].kind = "dict" /\ Len(e[SizeMetric].d) = 4
           /\ e[RampUpMetric] = FloatScore(One)
           /\ e[BusFactorMetric] = FloatScore(Half)
           /\ e[AvailabilityMetric] = FloatScore(One)
           /\ e[DatasetQualityMetric] = FloatScore(One)
           /\ e[CodeQualityMetric] = FloatScore(One)
           /\ e[PerformanceClaimsMetric] = FloatScore(One)
           /\ e[NetScore] = FloatScore(Rat(445, 1000))
           /\ ret = Some(Rat(445, 1000))

\* C4: computeNetScore never raises on an incomplete score map: a metric
\* with no stored score counts as 0.0 (so a missing license score gives
\* NetScore 0.0), and a SizeMetric entry that is an empty mapping or not a
\* mapping counts as 0.0.
C4_Formula ==
    /\ pc # "crashed"
    /\ pc = "computed" =>
        LET e == models[1].evaluations
            term(k) ==
                IF k \notin DOMAIN e THEN Zero
                ELSE IF k = SizeMetric
                     THEN IF e[k].kind = "dict" /\ e[k].d # <<>>
                          THEN RDiv(RSumSeq(DictValues(e[k].d)), RInt(Len(e[k].d)))
                          ELSE Zero
                     ELSE e[k].f
            expected ==
                RMul(term(LicenseMetric),
                     RAdd(RMul(Rat(2, 10), term(SizeMetric)),
                     RAdd(RMul(Rat(3, 10), term(RampUpMetric)),
                     RAdd(RMul(Rat(1, 10), term(BusFactorMetric)),
                     RAdd(RMul(Rat(1, 10), term(AvailabilityMetric)),
                     RAdd(RMul(Rat(1, 10), term(DatasetQualityMetric)),
                     RAdd(RMul(Rat(1, 10), term(CodeQualityMetric)),
                          RMul(Rat(1, 10), term(PerformanceClaimsMetric)))))))))
        IN  /\ e[NetScore] = FloatScore(expected)
            /\ LicenseMetric \notin DOMAIN e => e[NetScore] = FloatScore(Zero)

\* A map without RampUpMetric and with a float under SizeMetric: license 1,
\* the five remaining metrics 1, so NetScore = 1 * (0 + 0 + 0.5) = 0.5.
C4_Witness ==
    /\ pc = "computed"
    /\ LET e == models[1].evaluations
       IN  /\ RampUpMetric \notin DOMAIN e
           /\ SizeMetric \in DOMAIN e /\ e[SizeMetric].kind = "float"
           /\ LicenseMetric \in DOMAIN e /\ e[LicenseMetric] = FloatScore(One)
           /\ \A k \in {BusFactorMetric, AvailabilityMetric, DatasetQualityMetric,
                        CodeQualityMetric, PerformanceClaimsMetric} :
                 k \in DOMAIN e /\ e[k] = FloatScore(One)
           /\ e[NetScore] = FloatScore(Half)


\* ------------------------------------------------- properties of the run
\* C2: once evaluate_all has run the catalogue's eight metrics on a model
\* and computed its NetScore, 0 <= NetScore <= 1.
C2_NetScoreRange ==
    \A i \in 1..Len(models) :
        LET e == models[i].evaluations
        IN  NetScore \in DOMAIN e =>
               /\ e[NetScore].kind = "float"
               /\ RLeq(Zero, e[NetScore].f)
               /\ RLeq(e[NetScore].f, One)

\* A finished run with a model whose eight metrics are stored and whose
\* NetScore is strictly positive.
C2_Witness ==
    /\ pc = "done"
    /\ \E i \in 1..Len(models) :
          LET e == models[i].evaluations
          IN  /\ MetricNames \subseteq DOMAIN e
              /\ NetScore \in DOMAIN e
              /\ RLt(Zero, e[NetScore].f)
              /\ RLt(e[NetScore].f, One)


\* C5: every metric returns a score for every shape of the fetched metadata
\* and never raises; here: no run ends in an exception that left a metric's
\* evaluate.
C5_MetricsNeverRaise == pc # "crashed"

\* C6: when the run has ended, the report holds exactly one record per
\* added model, in insertion order, also for models whose metrics failed.
C6_OneRecordPerModel ==
    pc \in {"done", "crashed"} =>
        /\ Len(report) = Len(models)
        /\ \A i \in 1..Len(report) :
              report[i] = getModelNDJSON(models[i], world).rec

\* C7: the calls evaluateModels makes are, in this order, for each model in
\* insertion order: the eight metrics in catalogue order, then
\* computeNetScore once; nothing of the next model starts before that.  The
\* calls made so far are always an initial part of that sequence, and the
\* whole of it when evaluateModels has returned.
C7_SequentialOrder ==
    LET per == Len(CatalogueMetrics) + 1
        call(j) ==
            <<((j - 1) \div per) + 1,
              IF ((j - 1) % per) + 1 <= Len(CatalogueMetrics)
              THEN CatalogueMetrics[((j - 1) % per) + 1]
              ELSE NetScore>>
    IN  /\ Len(log) <= per * Len(models)
        /\ \A j \in 1..Len(log) : log[j] = call(j)
        /\ pc = "done" => Len(log) = per * Len(models)

\* A finished run over two models: eighteen calls.
C7_Witness ==
    /\ pc = "done"
    /\ Len(models) = 2
    /\ Len(log) = 2 * (Len(CatalogueMetrics) + 1)
    /\ log[9] = <<1, NetScore>>
    /\ log[10] = <<2, LicenseMetric>>

OrderLines == { <<GitHubUrl, HFDatasetUrl, HFModelUrl>>, <<HFModelUrl>> }

InitOrder ==
    /\ world \in {w \in Worlds : NormalWorld(w)}
    /\ DATASET_NAME_TO_URL = [k \in {} |-> ""]
    /\ \E line \in OrderLines :
          models = <<ModelInit(line, world, DATASET_NAME_TO_URL).m>>
    /\ pc = "ordering"
    /\ linesRead = 0
    /\ success = TRUE
    /\ mi = 1
    /\ ki = 1
    /\ log = <<>>
    /\ report = <<>>
    /\ ret = None
    /\ evaluated = {}
    /\ snapshot = Some(models[1])
    /\ metricsArg = <<>>
    /\ urlsArg = <<>>
    /\ urlsRet = None

\* model.evaluate(metric) for a metric not evaluated yet
EvaluateAny(name) ==
    /\ pc = "ordering"
    /\ name \notin evaluated
    /\ LET e == ModelEvaluate(models[1], name, world, MetricElapsed(name))
       IN  /\ models' = [models EXCEPT ![1] = e.m]
           /\ pc' = IF e.raised THEN "crashed" ELSE pc
    /\ evaluated' = evaluated \cup {name}
    /\ UNCHANGED <<world, DATASET_NAME_TO_URL, linesRead, success, mi, ki,
                   log, report, ret, snapshot, metricsArg, urlsArg,
                   urlsRet>>

\* model.computeNetScore() once all eight are stored
ComputeAfterAll ==
    /\ pc = "ordering"
    /\ evaluated = MetricNames
    /\ LET c == ModelComputeNetScore(models[1])
       IN  /\ models' = [models EXCEPT ![1] = c.m]
           /\ ret' = Some(c.ret)
           /\ pc' = IF c.raised THEN "crashed" ELSE "computed"
    /\ UNCHANGED <<world, DATASET_NAME_TO_URL, linesRead, success, mi, ki,
                   log, report, caller>>

NextOrder ==
    \/ \E name \in MetricNames : EvaluateAny(name)
    \/ ComputeAfterAll

SpecOrder == InitOrder /\ [][NextOrder]_vars

\* ------------------------------------------------ Model.evaluate_all twice
\* A caller calls evaluate_all twice in a row with the same list of
\* metrics.  snapshot keeps the Model as the first call left it.
MetricLists ==
    { CatalogueMetrics,
      <<CodeQualityMetric, BusFactorMetric>>,
      <<SizeMetric, CodeQualityMetric, PerformanceClaimsMetric>>,
      <<LicenseMetric, DatasetQualityMetric, RampUpMetric, AvailabilityMetric>>,
      <<>> }

InitTwice ==
    /\ world \in {w \in Worlds : NormalWorld(w)}
    /\ DATASET_NAME_TO_URL = [k \in {} |-> ""]
    /\ models = <<ModelInit(<<GitHubUrl, HFDatasetUrl, HFModelUrl>>, world,
                            DATASET_NAME_TO_URL).m>>
    /\ pc = "fresh"
    /\ linesRead = 0
    /\ success = TRUE
    /\ mi = 1
    /\ ki = 1
    /\ log = <<>>
    /\ report = <<>>
    /\ ret = None
    /\ evaluated = {}
    /\ snapshot = None
    /\ metricsArg \in MetricLists
    /\ urlsArg = <<>>
    /\ urlsRet = None

\* <<start, end>>: the two time.time() readings around a metric call.  The
\* wall clock can be set back between them.
ClockReadings ==
    { <<Rat(10, 1), Rat(10, 1)>>, <<Rat(10, 1), Rat(41, 4)>>,
      <<Rat(10, 1), Rat(20003, 2000)>>, <<Rat(10, 1), Rat(39, 4)>> }

\* end - start
ElapsedSamples == {RSub(p[2], p[1]) : p \in ClockReadings}

\* model.evaluate_all(metrics), the first and the second time
EvaluateAll ==
    /\ pc \in {"fresh", "first"}
    /\ \E elapsed \in ElapsedSamples :
         \E r \in {ModelEvaluateAll(models[1], metricsArg, world, elapsed)} :
           /\ models' = [models EXCEPT ![1] = r.m]
           /\ pc' = IF r.raised THEN "crashed"
                    ELSE IF pc = "fresh" THEN "first" ELSE "second"
           /\ snapshot' = IF pc = "fresh" /\ ~r.raised THEN Some(r.m) ELSE snapshot
    /\ UNCHANGED <<world, DATASET_NAME_TO_URL, linesRead, success, mi, ki,
                   log, report, ret, evaluated, metricsArg, urlsArg,
                   urlsRet>>

\* model.computeNetScore() once more, no metric having been evaluated since
ComputeNetScoreAgain ==
    /\ pc \in {"first", "second"}
    /\ \E c \in {ModelComputeNetScore(models[1])} :
           /\ models' = [models EXCEPT ![1] = c.m]
           /\ ret' = Some(c.ret)
           /\ pc' = IF c.raised THEN "crashed" ELSE pc
    /\ UNCHANGED <<world, DATASET_NAME_TO_URL, linesRead, success, mi, ki,
                   log, report, caller>>

\* catalogue.generateReport() on a catalogue holding the model
ReportOne ==
    /\ pc \in {"fresh", "first", "second"}
    /\ \E g \in {generateReport(models, world)} :
           /\ models' = g.ms
           /\ report' = g.recs
    /\ pc' = "reported"
    /\ UNCHANGED <<world, DATASET_NAME_TO_URL, linesRead, success, mi, ki,
                   log, ret, caller>>

NextTwice ==
    \/ EvaluateAll
    \/ ComputeNetScoreAgain
    \/ ReportOne

SpecTwice == InitTwice /\ [][NextTwice]_vars


\* C8: for a fixed Model and fixed external metadata the stored score of
\* every metric and the NetScore are the same for every order in which the
\* eight metrics are evaluated: here, the same as in the catalogue's order.
C8_OrderIndependent ==
    pc = "computed" =>
        LET ref == ModelEvaluateAll(Get(snapshot), CatalogueMetrics, world, Zero)
        IN  ~ref.raised => models[1].evaluations = ref.m.evaluations

\* C9: a second evaluate_all with the same metric list and unchanged
\* external metadata leaves every metric's score and the NetScore as the
\* first call left them.
C9_Idempotent ==
    pc = "second" => models[1].evaluations = Get(snapshot).evaluations


\* C11: right after computeNetScore the latency stored under "NetScore" is
\* the sum of the latencies stored under all other keys, and computeNetScore
\* once more, with no evaluation in between, leaves the latencies as they
\* are: the previous NetScore latency is not counted.
C11_NetScoreLatencySum ==
    pc \in {"first", "second"} =>
        LET lat == models[1].evaluationsLatency
            others == [i \in 1..Len(CatalogueMetrics) |->
                          IF CatalogueMetrics[i] \in DOMAIN lat
                          THEN lat[CatalogueMetrics[i]] ELSE Zero]
        IN  /\ NetScore \in DOMAIN lat
            /\ lat[NetScore] = RSumSeq(others)
            /\ ModelComputeNetScore(models[1]).m.evaluationsLatency = lat

\* The second evaluate_all over the catalogue's list has returned, with a
\* positive total latency, and computeNetScore was then called once more.
C11_Witness ==
    /\ pc = "second"
    /\ metricsArg = CatalogueMetrics
    /\ ~IsNone(ret)
    /\ models[1].evaluationsLatency[NetScore] = Rat(8, 4)


\* C12: in every record of a report every latency field, net_score_latency
\* included, is a non-negative whole number of milliseconds, whatever the
\* two clock readings around each metric call were.
C12_LatenciesNonNegative ==
    \A i \in 1..Len(report) :
        /\ report[i].net_score_latency \in Nat
        /\ report[i].ramp_up_time_latency \in Nat
        /\ report[i].bus_factor_latency \in Nat
        /\ report[i].performance_claims_latency \in Nat
        /\ report[i].license_latency \in Nat
        /\ report[i].size_score_latency \in Nat
        /\ report[i].dataset_and_code_score_latency \in Nat
        /\ report[i].dataset_quality_latency \in Nat
        /\ report[i].code_quality_latency \in Nat


ScalarFields ==
    { <<"net_score", NetScore>>, <<"ramp_up_time", RampUpMetric>>,
      <<"bus_factor", BusFactorMetric>>,
      <<"performance_claims", PerformanceClaimsMetric>>,
      <<"license", LicenseMetric>>,
      <<"dataset_and_code_score", AvailabilityMetric>>,
      <<"dataset_quality", DatasetQualityMetric>>,
      <<"code_quality", CodeQualityMetric>> }

\* Field name of the latency written next to a score field.
LatencyField(f) ==
    CASE f = "net_score" -> "net_score_latency"
      [] f = "ramp_up_time" -> "ramp_up_time_latency"
      [] f = "bus_factor" -> "bus_factor_latency"
      [] f = "performance_claims" -> "performance_claims_latency"
      [] f = "license" -> "license_latency"
      [] f = "size_score" -> "size_score_latency"
      [] f = "dataset_and_code_score" -> "dataset_and_code_score_latency"
      [] f = "dataset_quality" -> "dataset_quality_latency"
      [] f = "code_quality" -> "code_quality_latency"

InitMain ==
    /\ world \in {w \in Worlds : NormalWorld(w)}
    /\ DATASET_NAME_TO_URL = [k \in {} |-> ""]
    /\ models = <<>>
    /\ pc = "validating"
    /\ linesRead = 0
    /\ success = TRUE
    /\ mi = 1
    /\ ki = 1
    /\ log = <<>>
    /\ report = <<>>
    /\ ret = None
    /\ evaluated = {}
    /\ snapshot = None
    /\ metricsArg = <<>>
    /\ urlsArg = <<>>
    /\ urlsRet = None

\* if not validate_github_token(): return 1
ValidateToken ==
    /\ pc = "validating"
    /\ \E valid \in BOOLEAN :
          IF valid
          THEN pc' = "reading" /\ UNCHANGED ret
          ELSE pc' = "exited" /\ ret' = Some(1)
    /\ UNCHANGED <<world, DATASET_NAME_TO_URL, models, linesRead, success,
                   mi, ki, log, report, caller>>

\* One iteration of the loop of main.run_catalogue: a line without exactly
\* three fields ends the process with exit(1), which no handler catches.
ReadLineMain(line) ==
    /\ pc = "reading"
    /\ linesRead < MaxLines
    /\ linesRead' = linesRead + 1
    /\ IF Len(line) # 3
       THEN /\ pc' = "exited"
            /\ ret' = Some(1)
            /\ UNCHANGED <<models, DATASET_NAME_TO_URL, success>>
       ELSE /\ UNCHANGED <<pc, ret>>
            /\ \E r \in {ModelInit(NonEmptyFields(line), world,
                                   DATASET_NAME_TO_URL)} :
                  IF r.ok
                  THEN /\ models' = addModel(models, r.m)
                       /\ DATASET_NAME_TO_URL' = r.table
                       /\ UNCHANGED success
                  ELSE /\ success' = FALSE
                       /\ UNCHANGED <<models, DATASET_NAME_TO_URL>>
    /\ UNCHANGED <<world, mi, ki, log, report, caller>>

NextMain ==
    \/ ValidateToken
    \/ \E line \in LineSamples : ReadLineMain(line)
    \/ EndOfInput
    \/ EvaluateStep
    \/ NetScoreStep
    \/ GenerateReport

SpecMain == InitMain /\ [][NextMain]_vars

\* C15: a malformed line (wrong number of fields, or one from which no Model
\* is built) is skipped and nothing else: the loop goes on with the next
\* line, the run is marked as failed (exit status 1), and the report that
\* ends the run has a record for every model built from the valid lines.
C15_MalformedLineSkipped ==
    [][ /\ (pc = "reading" /\ linesRead' = linesRead + 1 /\ models' = models)
            => (pc' = "reading" /\ success' = FALSE)
        /\ (pc' = "done" /\ pc # "done")
            => (Len(report') = Len(models) /\ success' = success) ]_vars


\* A field of an input line that stands for "no URL": empty or a null token.
MissingField(t) == Lower(t) \in MISSING_TOKENS

\* C16: a line of three fields whose third field is a model URL and whose
\* code and/or dataset field is empty or a null token is no line error:
\* a Model is added whose model URL is the third field, an empty field is
\* absent in the parsed URLs and a non-empty field keeps its own role.
C16_MissingFieldsAccepted ==
    [][ \A line \in LineSamples :
          ( /\ ReadLineMain(line)
            /\ Len(line) = 3
            /\ line[3] = HFModelUrl
            /\ MissingField(line[1]) \/ MissingField(line[2]) )
          => LET urlset == parse_urls_by_position(NonEmptyFields(line))
             IN  /\ success' = success
                 /\ Len(models') = Len(models) + 1
                 /\ models'[Len(models')].modelLink = line[3]
                 /\ urlset.model = Some(line[3])
                 /\ urlset.code =
                      IF MissingField(line[1]) THEN None ELSE Some(line[1])
                 /\ urlset.dataset =
                      IF MissingField(line[2]) THEN None ELSE Some(line[2]) ]_vars


\* ------------------------------------------------- callers of url_utils
\* Longest list of URLs a caller passes.
MaxUrls == 4

\* The strings a list may hold.
UrlFields ==
    {HFModelUrl, HFSlashUrl, HFDatasetUrl, HFDatasetUrlCaps, GitHubUrl,
     PaddedGitHubUrl, OtherUrl, "", "none"}

RECURSIVE SeqsUpTo(_, _)
SeqsUpTo(S, n) ==
    IF n = 0 THEN {<<>>}
    ELSE LET shorter == SeqsUpTo(S, n - 1)
         IN  shorter \cup {Append(q, x) : q \in {t \in shorter : Len(t) = n - 1},
                                          x \in S}

UrlLists == SeqsUpTo(UrlFields, MaxUrls)

\* The values classify_url is called with.
ClassifyInputs ==
    {PyNone, PyInt}
    \cup {PyStr(t) : t \in UrlFields \cup
             {HFDatasetUrlCaps, BlankStr, PaddedGitHubUrl, HFRootUrl,
              HFDatasetsBareUrl, NoSchemeUrl, WwwGitHubUrl, FtpUrl}}

\* A caller holds a list of URLs and calls one of the functions once.
InitUrls ==
    /\ world = FullWorld
    /\ DATASET_NAME_TO_URL = [k \in {} |-> ""]
    /\ models = <<>>
    /\ pc = "parsing"
    /\ linesRead = 0
    /\ success = TRUE
    /\ mi = 1
    /\ ki = 1
    /\ log = <<>>
    /\ report = <<>>
    /\ ret = None
    /\ evaluated = {}
    /\ snapshot = None
    /\ metricsArg = <<>>
    /\ urlsArg \in UrlLists
    /\ urlsRet = None

\* classify_url(url)
ClassifyUrl(url) ==
    /\ pc = "parsing"
    /\ urlsArg' = <<url>>
    /\ urlsRet' = Some(classify_url(url))
    /\ pc' = "classified_url"
    /\ UNCHANGED <<world, DATASET_NAME_TO_URL, models, linesRead, success,
                   mi, ki, log, report, ret, evaluated, snapshot, metricsArg>>

\* classify_urls(urls)
ClassifyUrls ==
    /\ pc = "parsing"
    /\ urlsRet' = Some(classify_urls(urlsArg))
    /\ pc' = "classified"
    /\ UNCHANGED <<world, DATASET_NAME_TO_URL, models, linesRead, success,
                   mi, ki, log, report, ret, evaluated, snapshot, metricsArg,
                   urlsArg>>

\* parse_urls_by_position(urls)
ParseUrlsByPosition ==
    /\ pc = "parsing"
    /\ urlsRet' = Some(parse_urls_by_position(urlsArg))
    /\ pc' = "parsed"
    /\ UNCHANGED <<world, DATASET_NAME_TO_URL, models, linesRead, success,
                   mi, ki, log, report, ret, evaluated, snapshot, metricsArg,
                   urlsArg>>

\* Model(urls); success tells whether the constructor returned.
ConstructModel ==
    /\ pc = "parsing"
    /\ \E r \in {ModelInit(urlsArg, world, DATASET_NAME_TO_URL)} :
          /\ success' = r.ok
          /\ models' = IF r.ok THEN <<r.m>> ELSE models
          /\ DATASET_NAME_TO_URL' = r.table
    /\ pc' = "constructed"
    /\ UNCHANGED <<world, linesRead, mi, ki, log, report, ret, caller>>

\* run.run_catalogue: bundle(urls) on the URLs read from the file
Bundle ==
    /\ pc = "parsing"
    /\ urlsRet' = Some(bundle(urlsArg))
    /\ pc' = "bundled"
    /\ UNCHANGED <<world, DATASET_NAME_TO_URL, models, linesRead, success,
                   mi, ki, log, report, ret, evaluated, snapshot, metricsArg,
                   urlsArg>>

NextUrls ==
    \/ Bundle
    \/ \E url \in ClassifyInputs : ClassifyUrl(url)
    \/ ClassifyUrls
    \/ ParseUrlsByPosition
    \/ ConstructModel

SpecUrls == InitUrls /\ [][NextUrls]_vars

\* The role classify_url finds for a string, "" when it raises.
RoleOf(t) == IF classify_url(PyStr(t)).ok THEN classify_url(PyStr(t)).kind ELSE ""

\* How many URLs of a list classify_url gives the role.
CountRole(urls, role) == Cardinality({i \in 1..Len(urls) : RoleOf(urls[i]) = role})

PositionRole == <<"code", "dataset", "model">>

\* C18: position-driven parsing checks every non-empty slot: when the role
\* classify_url detects for the URL of a slot is not the role of that
\* position, parse_urls_by_position fails and returns no URLSet.
C18_SlotRolesChecked ==
    pc = "parsed" =>
        ( (\E i \in 1..Len(urlsArg) :
              /\ i <= 3
              /\ ~MissingField(urlsArg[i])
              /\ RoleOf(urlsArg[i]) # ""
              /\ RoleOf(urlsArg[i]) # PositionRole[i])
          => ~Get(urlsRet).ok )


\* C19: Model(urls) gives each URL its role by host and path, whatever its
\* place in the list: for one huggingface.co model URL, one github.com URL
\* and one huggingface.co/datasets/ URL in any order, modelLink is the
\* model URL, codeLink the github URL and datasetLink the dataset URL.
C19_RolesByDomain ==
    ( /\ pc = "constructed"
      /\ Len(urlsArg) = 3
      /\ {urlsArg[i] : i \in 1..3} = {HFModelUrl, GitHubUrl, HFDatasetUrl} )
    => /\ success
       /\ Len(models) = 1
       /\ models[1].modelLink = HFModelUrl
       /\ models[1].codeLink = Some(GitHubUrl)
       /\ models[1].datasetLink = Some(HFDatasetUrl)


\* C20: classify_url answers "dataset" for host huggingface.co with a path
\* starting with /datasets/, "model" for host huggingface.co with any other
\* non-empty path and "code" for host github.com; it raises ValueError for
\* a value that is not a string, an empty or blank string, a URL without a
\* host, host huggingface.co with an empty path, and every other host.
C20_ClassifyUrl ==
    pc = "classified_url" =>
        LET url == urlsArg[1]
            r == Get(urlsRet)
            host == urlparse(Strip(url.s)).netloc
            path == urlparse(Strip(url.s)).path
        IN  IF url.kind # "str" \/ url.s = "" \/ Strip(url.s) = "" THEN ~r.ok
            ELSE IF host = "" THEN ~r.ok
            ELSE IF host = "huggingface.co"
            THEN IF Len(path) >= 3 /\ path[1] = "/" /\ path[2] = "datasets"
                    /\ path[3] = "/"
                 THEN r.ok /\ r.kind = "dataset"
                 ELSE IF path # <<>> THEN r.ok /\ r.kind = "model"
                 ELSE ~r.ok
            ELSE IF host = "github.com" THEN r.ok /\ r.kind = "code"
            ELSE ~r.ok

\* classify_url refusing huggingface.co without a path.
C20_Witness ==
    /\ pc = "classified_url"
    /\ urlsArg = <<PyStr(HFRootUrl)>>
    /\ ~Get(urlsRet).ok
    /\ Get(urlsRet).err = "Unknown Hugging Face URL"


\* str.lower() on license identifiers
LicenseLower(t) ==
    CASE t = "MIT" -> "mit"
      [] t = "BSD-2-Clause" -> "bsd-2-clause"
      [] t = "BSD-3-Clause" -> "bsd-3-clause"
      [] t = "LGPL-2.1" -> "lgpl-2.1"
      [] t = "LGPL-2.1-or-later" -> "lgpl-2.1-or-later"
      [] t = "GPL-2.0-or-later" -> "gpl-2.0-or-later"
      [] t = "GPL-2.0" -> "gpl-2.0"
      [] t = "MPL-2.0" -> "mpl-2.0"
      [] t = "Unlicense" -> "unlicense"
      [] t = "Apache-2.0" -> "apache-2.0"
      [] t = "GPL-3.0" -> "gpl-3.0"
      [] t = "LGPL-3.0" -> "lgpl-3.0"
      [] t = "AGPL-3.0" -> "agpl-3.0"
      [] t = "Proprietary" -> "proprietary"
      [] OTHER -> t

\* The license identifier LicenseMetric.evaluate ends with for a model: the
\* one of the model card, else the one of the repository.
LicenseIdFound(m, w) ==
    LET hf_id == IF m.modelLink # "" /\ HasHuggingFace(m.modelLink)
                 THEN get_license_from_huggingface(w, m.modelLink)
                 ELSE PyNone
    IN  IF ~Truthy(hf_id) /\ ~IsNone(m.codeLink) /\ HasGitHub(Get(m.codeLink))
        THEN get_spdx_license_from_github(w, Get(m.codeLink))
        ELSE hf_id

\* C21: the license score is the tier of the identifier, compared without
\* regard to letter case, in the fixed table: 1.0 for a compatible, 0.5 for
\* an ambiguous, 0.0 for an incompatible license, 0.5 for an unknown or
\* missing one; it is always one of 0.0, 0.5, 1.0.
C21_LicenseTiers ==
    \A i \in 1..Len(models) :
        LicenseMetric \in DOMAIN models[i].evaluations =>
            LET id == LicenseIdFound(models[i], world)
                score == models[i].evaluations[LicenseMetric]
                same == {k \in DOMAIN LICENSE_COMPATIBILITY :
                            id.kind = "str" /\ LicenseLower(k) = LicenseLower(id.s)}
            IN  /\ score \in {FloatScore(Zero), FloatScore(Half), FloatScore(One)}
                /\ \A k \in same : score = FloatScore(LICENSE_COMPATIBILITY[k])
                /\ same = {} => score = FloatScore(Half)


\* ------------------------------------- callers of Model.evaluate, one model
\* Calls of evaluate made on the model in one behaviour.
MaxEvals == 2

\* Commit counts of the contributors of the repository, in API order.
ContributorSamples ==
    { <<>>, <<10, 10, 10>>, <<10, 5, 1>>, <<0, 0>>, <<4>>,
      <<3, 9, 7, 5, 8, 6, 1, 4, 9, 2, 7, 5>> }

\* Model cards with and without an author, of a large organisation or not.
AuthorSamples ==
    { HFDoc("acme", "acme/model", PyStr("MIT"), <<>>, "", 1, 0, <<>>),
      HFDoc("", "acme/model", PyStr("MIT"), <<>>, "", 1, 0, <<>>),
      HFDoc("", "google/model", PyStr("MIT"), <<>>, "", 1, 0, <<>>),
      HFDoc("google", "acme/model", PyStr("MIT"), <<>>, "", 1, 0, <<>>) }

BusWorlds ==
    { [FullWorld EXCEPT !.hf = h, !.gh = g] :
        h \in {None} \cup {Some(d) : d \in AuthorSamples},
        g \in {None} \cup {Some(GHDoc(c, PyStr("MIT"), Some(150), Some(30), TRUE)) :
                              c \in ContributorSamples} }

\* Parameter counts (units of 2^30; 0: none found) and dtype widths (0: none
\* found) of the model card.
ParamSamples == {0, 1, 2, 3, 5, 10, 15, 30, 40}
BitsSamples == {0, 8, 16, 32}

SizeSamples ==
    { HFDoc("acme", "acme/model", PyStr("MIT"), <<>>, "", p, b, <<>>) :
        p \in ParamSamples, b \in BitsSamples }

SizeWorlds == { [FullWorld EXCEPT !.hf = Some(d)] : d \in SizeSamples }

\* Model repositories showing any of the checklist signals.
RampWorlds == { [FullWorld EXCEPT !.signals = S] : S \in SUBSET ChecklistSignals }

MetricWorlds == BusWorlds \cup SizeWorlds \cup RampWorlds

InitMetric ==
    /\ world \in MetricWorlds
    /\ DATASET_NAME_TO_URL = [k \in {} |-> ""]
    /\ models = <<ModelInit(<<GitHubUrl, HFDatasetUrl, HFModelUrl>>, world,
                            DATASET_NAME_TO_URL).m>>
    /\ pc = "metric"
    /\ linesRead = 0
    /\ success = TRUE
    /\ mi = 1
    /\ ki = 1
    /\ log = <<>>
    /\ report = <<>>
    /\ ret = None
    /\ evaluated = {}
    /\ snapshot = None
    /\ metricsArg = <<>>
    /\ urlsArg = <<>>
    /\ urlsRet = None

\* model.evaluate(metric) for any of the catalogue's metrics
EvaluateMetric(name) ==
    /\ pc = "metric"
    /\ Len(log) < MaxEvals
    /\ \E elapsed \in ElapsedSamples :
         \E e \in {ModelEvaluate(models[1], name, world, elapsed)} :
           /\ models' = [models EXCEPT ![1] = e.m]
           /\ pc' = IF e.raised THEN "crashed" ELSE pc
           /\ log' = Append(log, <<1, name, elapsed>>)
    /\ evaluated' = evaluated \cup {name}
    /\ UNCHANGED <<world, DATASET_NAME_TO_URL, linesRead, success, mi, ki,
                   report, ret, snapshot, metricsArg, urlsArg, urlsRet>>

\* Between two calls the owner of the model repository edits the license
\* of the card; LicenseMetric asks the API on every call.
LicenseChanges ==
    /\ pc = "metric"
    /\ Len(log) = 1
    /\ ~IsNone(world.hf)
    /\ \E l \in {PyStr("MIT"), PyStr("GPL-3.0")} :
          /\ l # Get(world.hf).license
          /\ world' = [world EXCEPT !.hf = Some([Get(@) EXCEPT !.license = l])]
    /\ UNCHANGED <<DATASET_NAME_TO_URL, models, pc, linesRead, success, mi, ki,
                   log, report, ret, caller>>

NextMetric ==
    \/ \E name \in MetricNames : EvaluateMetric(name)
    \/ LicenseChanges

SpecMetric == InitMetric /\ [][NextMetric]_vars

\* The n-th largest of a list of ints.
NthLargest(xs, n) ==
    CHOOSE v \in {xs[i] : i \in 1..Len(xs)} :
        /\ Cardinality({i \in 1..Len(xs) : xs[i] > v}) < n
        /\ Cardinality({i \in 1..Len(xs) : xs[i] >= v}) >= n

CardSizeGB(doc) ==
    RMul(RInt(doc.params), IF doc.bits > 0 THEN Rat(doc.bits, 8) ELSE RInt(2))

\* The device scores SizeMetric gives a model with the card doc.
SizeScoresOf(doc) ==
    SizeEvaluate(ModelInit(<<GitHubUrl, HFDatasetUrl, HFModelUrl>>,
                           [FullWorld EXCEPT !.hf = Some(doc)],
                           [k \in {} |-> ""]).m,
                 [FullWorld EXCEPT !.hf = Some(doc)]).score.d

\* C23: for each of the four devices the size score lies in [0,1], is
\* exactly 0.0 once the size (parameter count times bytes per parameter) is
\* at or above the device's usable memory, and is not larger for a larger
\* model than for a smaller one.
C23_SizeMonotone ==
    (pc = "metric" /\ SizeMetric \in DOMAIN models[1].evaluations
     /\ ~IsNone(world.hf)) =>
        LET doc == Get(world.hf)
            sc == models[1].evaluations[SizeMetric]
        IN  /\ sc.kind = "dict"
            /\ Len(sc.d) = Len(DEVICE_SPECS)
            /\ \A i \in 1..Len(DEVICE_SPECS) :
                  /\ sc.d[i][1] = DEVICE_SPECS[i][1]
                  /\ RLeq(Zero, sc.d[i][2]) /\ RLeq(sc.d[i][2], One)
                  /\ (doc.params > 0
                      /\ RLeq(RInt(DEVICE_SPECS[i][2]), CardSizeGB(doc)))
                        => sc.d[i][2] = Zero
                  /\ \A other \in SizeSamples :
                        (doc.params > 0 /\ other.params > 0
                         /\ RLeq(CardSizeGB(doc), CardSizeGB(other)))
                          => RLeq(SizeScoresOf(other)[i][2], sc.d[i][2])

\* A model of 20 GB: nothing on the three devices of up to 20 GB, two
\* thirds on the largest.
C23_Witness ==
    /\ pc = "metric"
    /\ SizeMetric \in DOMAIN models[1].evaluations
    /\ ~IsNone(world.hf)
    /\ CardSizeGB(Get(world.hf)) = RInt(20)
    /\ models[1].evaluations[SizeMetric].d[3] = <<"desktop_pc", Zero>>
    /\ models[1].evaluations[SizeMetric].d[4] = <<"aws_server", Rat(2, 3)>>


\* C24: for a Model built by the pipeline RampUpMetric is 0.2 times the
\* number of the five checklist signals its README and model index show,
\* 1.0 for a repository showing all five.
C24_RampUpChecklist ==
    \A i \in 1..Len(models) :
        RampUpMetric \in DOMAIN models[i].evaluations =>
            models[i].evaluations[RampUpMetric] =
                FloatScore(Rat(2 * Cardinality(world.signals), 10))


\* C25: Model.evaluate stores the score the metric returned and the elapsed
\* time under the metric's class name; a second evaluation with a metric of
\* the same class replaces both values with the latest ones, adds no second
\* entry and does not raise; the eight metrics of the catalogue have eight
\* different names.
C25_LastWriteWins ==
    [][ (pc = "metric" /\ Len(log') = Len(log) + 1) =>
          LET call == log'[Len(log')]
              name == call[2]
              returned == MetricEvaluate(name, models[1], world).score
              e == models[1].evaluations
              l == models[1].evaluationsLatency
          IN  /\ pc' = "metric"
              /\ models'[1].evaluations[name] = returned
              /\ models'[1].evaluationsLatency[name] = call[3]
              /\ DOMAIN models'[1].evaluations = DOMAIN e \cup {name}
              /\ DOMAIN models'[1].evaluationsLatency = DOMAIN l \cup {name}
              /\ Cardinality({CatalogueMetrics[i] : i \in 1..Len(CatalogueMetrics)})
                    = 8
              /\ Len(CatalogueMetrics) = 8 ]_vars

\* The license metric evaluated twice, the license having changed from
\* compatible to incompatible in between: one entry, holding the second
\* score and the second elapsed time.
C25_Witness ==
    /\ pc = "metric"
    /\ Len(log) = 2
    /\ log[1][2] = LicenseMetric /\ log[2][2] = LicenseMetric
    /\ log[1][3] # log[2][3]
    /\ DOMAIN models[1].evaluations = {LicenseMetric}
    /\ DOMAIN models[1].evaluationsLatency = {LicenseMetric}
    /\ ~IsNone(world.hf)
    /\ Get(world.hf).license = PyStr("GPL-3.0")
    /\ models[1].evaluations[LicenseMetric] = FloatScore(Zero)
    /\ models[1].evaluationsLatency[LicenseMetric] = log[2][3]


\* The keys at which two maps differ.
ChangedKeys(a, b) ==
    {k \in (DOMAIN a) \cup (DOMAIN b) :
        k \notin DOMAIN a \/ k \notin DOMAIN b \/ a[k] # b[k]}

\* C26: once a Model is constructed its score and latency maps are changed
\* only by evaluate, at the entries of the metric evaluated, and by
\* computeNetScore, at the "NetScore" entries; the report (getScore,
\* getLatency, getCategory, generateReport) and the construction of other
\* models leave both maps as they are, and modelLink never changes.
C26_OnlyEvaluateWrites ==
    [][ /\ Len(models') >= Len(models)
        /\ \A i \in 1..Len(models) :
             LET written == IF Len(log') = Len(log) + 1
                               /\ log'[Len(log')][1] = i
                            THEN {log'[Len(log')][2]} ELSE {}
             IN  /\ models'[i].modelLink = models[i].modelLink
                 /\ ChangedKeys(models[i].evaluations, models'[i].evaluations)
                       \subseteq written
                 /\ ChangedKeys(models[i].evaluationsLatency,
                                models'[i].evaluationsLatency) \subseteq written
      ]_vars

\* A finished run of two models: each was evaluated and then reported.
C26_Witness ==
    /\ pc = "done"
    /\ Len(models) = 2
    /\ Len(report) = 2
    /\ Len(log) = 2 * (Len(CatalogueMetrics) + 1)
    /\ \A i \in 1..2 :
          DOMAIN models[i].evaluations = MetricNames \cup {NetScore}


\* The role URLBundler.classify_url finds for a string, "" when it raises.
BundleRole(t) ==
    IF bundler_classify_url(t).ok THEN bundler_classify_url(t).kind ELSE ""

\* The largest member of a non-empty set of numbers.
Largest(S) == CHOOSE x \in S : \A y \in S : y <= x

\* C27: bundle(urls) emits one URLBundle per model URL, in input order; a
\* bundle carries the most recent code URL and dataset URL seen since the
\* previous model URL (or the start) and none seen before it; code and
\* dataset URLs no model URL follows give no bundle; one URL that cannot be
\* classified makes the whole call raise ValueError.
C27_Bundle ==
    pc = "bundled" =>
        LET bundled == Get(urlsRet)
            modelAt == {i \in 1..Len(urlsArg) : BundleRole(urlsArg[i]) = "model"}
            lastModelBefore(i) == Largest({0} \cup {j \in modelAt : j < i})
            recentOf(i, role) ==
                LET seen == {j \in (lastModelBefore(i) + 1)..(i - 1) :
                                BundleRole(urlsArg[j]) = role}
                IN  IF seen = {} THEN None ELSE Some(urlsArg[Largest(seen)])
        IN  IF \E i \in 1..Len(urlsArg) : BundleRole(urlsArg[i]) = ""
            THEN ~bundled.ok /\ bundled.bundles = <<>>
            ELSE /\ bundled.ok
                 /\ Len(bundled.bundles) = Cardinality(modelAt)
                 /\ \A i \in modelAt :
                      bundled.bundles[Cardinality({j \in modelAt : j <= i})] =
                          URLBundle(Some(urlsArg[i]), recentOf(i, "code"),
                                    recentOf(i, "dataset"))

\* Two code URLs, then two model URLs: the first bundle has the second code
\* URL, the second bundle has none.
C27_Witness ==
    /\ pc = "bundled"
    /\ Len(urlsArg) = 4
    /\ BundleRole(urlsArg[1]) = "code"
    /\ BundleRole(urlsArg[2]) = "code"
    /\ urlsArg[1] # urlsArg[2]
    /\ Get(urlsRet).ok
    /\ Len(Get(urlsRet).bundles) = 2
    /\ Get(urlsRet).bundles[1].code = Some(urlsArg[2])
    /\ Get(urlsRet).bundles[2].code = None


\* C28: whatever evaluate, evaluate_all and computeNetScore calls have been
\* made on a constructed Model, its score map and its latency map have the
\* same keys: no score without a latency, no latency without a score.
C28_SameKeys ==
    \A i \in 1..Len(models) :
        DOMAIN models[i].evaluations = DOMAIN models[i].evaluationsLatency

\* The first model has its eight scores and its NetScore, the second is
\* part-way through its metrics.
C28_Witness ==
    /\ Len(models) = 2
    /\ pc = "evaluating"
    /\ MetricNames \cup {NetScore} \subseteq DOMAIN models[1].evaluationsLatency
    /\ DOMAIN models[2].evaluations # {}
    /\ NetScore \notin DOMAIN models[2].evaluations


\* ------------------------------------------- Models built one after another
\* A process constructs Models one after another; each construction fetches
\* the model card anew, and the card served may differ from one construction
\* to the next.
MaxModels == 3

\* Cards: the dataset names and the repository field they carry.
CardSamples ==
    { HFDoc("acme", "acme/model", PyStr("MIT"), cd[1], cd[2], 1, 0, <<>>) :
        cd \in { <<<<>>, "">>,
                 <<<<"acme/data">>, GitHubUrl>>,
                 <<<<"Acme/Data">>, OtherUrl>>,
                 <<<<" acme/data ">>, "">>,
                 <<<<"squad">>, "">>,
                 <<<<"squad", "other/set">>, GitHubUrl>>,
                 <<<<"other/set", "acme/data">>, "">> } }

CardWorlds ==
    { [FullWorld EXCEPT !.hf = h] : h \in {None} \cup {Some(d) : d \in CardSamples} }

\* The lists Model(urls) is called with: code, dataset, model by position.
ConstructionInputs ==
    { <<"none", "none", HFModelUrl>>,
      <<GitHubUrl, "none", HFModelUrl>>,
      <<"none", HFDatasetUrlCaps, HFModelUrl>>,
      <<WwwGitHubUrl, HFDatasetUrl, HFModelUrl>>,
      <<GitHubUrl, HFDatasetUrl, "none">> }

InitCards ==
    /\ world \in CardWorlds
    /\ DATASET_NAME_TO_URL = [k \in {} |-> ""]
    /\ models = <<>>
    /\ pc = "constructing"
    /\ linesRead = 0
    /\ success = TRUE
    /\ mi = 1
    /\ ki = 1
    /\ log = <<>>
    /\ report = <<>>
    /\ ret = None
    /\ evaluated = {}
    /\ snapshot = None
    /\ metricsArg = <<>>
    /\ urlsArg = <<>>
    /\ urlsRet = None

\* Model(urls); log keeps the list each Model was constructed from.
Construct(urls) ==
    /\ pc = "constructing"
    /\ Len(models) < MaxModels
    /\ \E r \in {ModelInit(urls, world, DATASET_NAME_TO_URL)} :
          /\ success' = r.ok
          /\ models' = IF r.ok THEN Append(models, r.m) ELSE models
          /\ log' = IF r.ok THEN Append(log, urls) ELSE log
          /\ DATASET_NAME_TO_URL' = r.table
    /\ urlsArg' = urls
    /\ UNCHANGED <<world, pc, linesRead, mi, ki, report, ret, evaluated,
                   snapshot, metricsArg, urlsRet>>

\* The Hub serves another card from now on.
CardEdited ==
    /\ pc = "constructing"
    /\ Len(models) < MaxModels
    /\ \E w \in CardWorlds : w # world /\ world' = w
    /\ UNCHANGED <<DATASET_NAME_TO_URL, models, pc, linesRead, success, mi, ki,
                   log, report, ret, caller>>

NextCards ==
    \/ \E urls \in ConstructionInputs : Construct(urls)
    \/ CardEdited

SpecCards == InitCards /\ [][NextCards]_vars


\* C29: construction takes a code or dataset link from the model card only
\* for a role the input left absent: a code or dataset URL given in the input
\* is the Model's link, and when the card offers no usable candidate (no card,
\* no github.com repository field; no dataset name the table knows or of
\* org/name form) the absent link stays None.
C29_InferOnlyAbsent ==
    [][ Len(models') = Len(models) + 1 =>
          LET built == models'[Len(models')]
              given == parse_urls_by_position(log'[Len(log')])
              names == IF IsNone(world.hf) THEN <<>> ELSE Get(world.hf).datasets
              repo == IF IsNone(world.hf) THEN "" ELSE Get(world.hf).repository
              usable == \E j \in 1..Len(names) :
                           \/ NameKey(names[j]) \in DOMAIN DATASET_NAME_TO_URL
                           \/ IsOrgName(names[j])
          IN  /\ ~IsNone(given.code) => built.codeLink = given.code
              /\ ~IsNone(given.dataset) => built.datasetLink = given.dataset
              /\ (IsNone(given.code) /\ ~HasGitHub(repo)) => IsNone(built.codeLink)
              /\ (IsNone(given.dataset) /\ ~usable) => IsNone(built.datasetLink)
      ]_vars

\* One Model kept the dataset URL it was given although its card named another
\* dataset, and took its code link from the card; another, given neither,
\* has a card naming only "squad" and no repository, and has neither link.
C29_Witness ==
    /\ pc = "constructing"
    /\ \E i \in 1..Len(models) :
          /\ log[i] = <<"none", HFDatasetUrlCaps, HFModelUrl>>
          /\ ~IsNone(models[i]._hf_metadata)
          /\ Get(models[i]._hf_metadata).datasets = <<"acme/data">>
          /\ models[i].datasetLink = Some(HFDatasetUrlCaps)
          /\ models[i].codeLink = Some(GitHubUrl)
    /\ \E j \in 1..Len(models) :
          /\ log[j] = <<"none", "none", HFModelUrl>>
          /\ ~IsNone(models[j]._hf_metadata)
          /\ Get(models[j]._hf_metadata).datasets = <<"squad">>
          /\ IsNone(models[j].datasetLink)
          /\ IsNone(models[j].codeLink)


\* Every entry of the table before a step is in the table after it, unchanged.
TableKept ==
    \A k \in DOMAIN DATASET_NAME_TO_URL :
        /\ k \in DOMAIN DATASET_NAME_TO_URL'
        /\ DATASET_NAME_TO_URL'[k] = DATASET_NAME_TO_URL[k]

\* The names of the card served now.
CardNames == IF IsNone(world.hf) THEN <<>> ELSE Get(world.hf).datasets

\* The positions of the card names the constructor can resolve: names the
\* table knows and names of org/name form.
Resolvable ==
    {j \in 1..Len(CardNames) :
        \/ NameKey(CardNames[j]) \in DOMAIN DATASET_NAME_TO_URL
        \/ IsOrgName(CardNames[j])}

\* C30 as stated: Model.DATASET_NAME_TO_URL only grows, an entry once
\* inserted is never changed or removed, and a later Model (constructed
\* without a dataset URL) whose card names a dataset of the table, compared
\* after trimming and lowercasing, receives exactly the URL stored for it.
C30_AnyNamedDataset ==
    [][ /\ TableKept
        /\ (Len(models') = Len(models) + 1
            /\ IsNone(parse_urls_by_position(log'[Len(log')]).dataset)) =>
              \A j \in 1..Len(CardNames) :
                 NameKey(CardNames[j]) \in DOMAIN DATASET_NAME_TO_URL =>
                    models'[Len(models')].datasetLink =
                        Some(DATASET_NAME_TO_URL[NameKey(CardNames[j])])
      ]_vars

\* C30, amended: the table only grows and no entry is changed or removed; a
\* later Model constructed without a dataset URL receives exactly the stored
\* URL when the dataset is the first name on its card that the constructor
\* can resolve.
C30_FirstResolvableName ==
    [][ /\ TableKept
        /\ (Len(models') = Len(models) + 1
            /\ IsNone(parse_urls_by_position(log'[Len(log')]).dataset)
            /\ Resolvable # {}) =>
              LET first == CHOOSE j \in Resolvable : \A i \in Resolvable : j <= i
                  named == NameKey(CardNames[first])
              IN  named \in DOMAIN DATASET_NAME_TO_URL =>
                     models'[Len(models')].datasetLink =
                         Some(DATASET_NAME_TO_URL[named])
      ]_vars

\* The first Model's card named "acme/data"; the second's names "Acme/Data"
\* and the second Model has the URL the first one stored.
C30_Witness ==
    /\ pc = "constructing"
    /\ Len(models) >= 2
    /\ log[1] = <<"none", "none", HFModelUrl>>
    /\ log[2] = <<"none", "none", HFModelUrl>>
    /\ Get(models[1]._hf_metadata).datasets = <<"acme/data">>
    /\ Get(models[2]._hf_metadata).datasets = <<"Acme/Data">>
    /\ "acme/data" \in DOMAIN DATASET_NAME_TO_URL
    /\ DATASET_NAME_TO_URL["acme/data"] = HFDatasetUrl
    /\ models[2].datasetLink = Some(HFDatasetUrl)


====
